---- MODULE Spec2Model ----
(***************************************************************************)
(* The cart widget of script.js as a state machine: the CartManager        *)
(* singleton (cart cache over localStorage, debounced cart count,          *)
(* notification queue, order composer) and the two page controllers        *)
(* (listing page and product-detail page).                                 *)
(*                                                                         *)
(* Every handler of the script is a pure operator from a program state     *)
(* (a record with one field per variable) to the program state after the   *)
(* handler has run to completion; an action commits the result of one      *)
(* handler.  JavaScript arrays are shared by reference: the array that      *)
(* getCart returns is the cache object itself, so push/splice on it change  *)
(* the cache before anything is saved (cartMutate).                        *)
(***************************************************************************)
EXTENDS Integers, Sequences, FiniteSets, TLC

VARIABLES
    storage,              \* localStorage['kodijongCart']: the stored text
    setItemThrows,        \* environment: localStorage.setItem throws
    getItemThrows,        \* environment: localStorage.getItem throws
    now,                  \* Date.now(), in ms
    _cartCache,           \* CartManager._cartCache (null or an array)
    _cartCacheTime,       \* CartManager._cartCacheTime
    updateTimeout,        \* closure variable of updateCartCount (timer handle)
    pendingUpdate,        \* closure variable of updateCartCount
    cartCount,            \* text of #cartCount / #floatingCartCount / .cart-count
    _notificationQueue,   \* CartManager._notificationQueue
    _notificationShowing, \* CartManager._notificationShowing
    notificationEls,      \* the .notification elements in document.body, in order
    displayTimers,        \* pending setTimeout callbacks of _showNextNotification
    page,                 \* which page is loaded: "main" or "product"
    orderList,            \* rows rendered in #order-list
    totalPrice,           \* text of #total-price
    listeners,            \* number of click listeners registered on #order-list
    customerName,         \* value of #customer-name
    customerPhone,        \* value of #customer-phone
    specialInstructions,  \* value of #special-instructions
    productId,            \* productContent.dataset.productId ("" when not set)
    currentBasePrice,     \* product page state
    currentExtrasTotal,
    currentDrinksTotal,
    currentQuantity,
    extras,
    drinks,
    extraQty,             \* value of each .extra-qty input, by data-name
    drinkQty,             \* value of each .drink-qty input, by data-name
    greens,               \* value of the checked input[name="greens"] ("" if none)
    sauce,                \* value of the checked input[name="sauce"] ("" if none)
    customSauce,          \* values of the checked input[name="custom-sauce"] boxes
    modalTotalDisplay,    \* text of #modalTotalDisplay
    shown,                \* observation: how many notifications this page load
                          \* has put on display, and Date.now() at the last
                          \* of them (not program state)
    lastAccess,           \* observation: Date.now() at this page's last
                          \* access to the stored cart (not program state):
                          \* .at   the last getItem call or successful setItem
                          \* .okAt the last getItem call that yielded a cart
                          \*       (it returned and its text parsed) or
                          \*       successful setItem
    last                  \* observation of the last step: which handler ran and
                          \* what it returned / called (not program state)

vars == <<storage, setItemThrows, getItemThrows, now, _cartCache, _cartCacheTime,
          updateTimeout, pendingUpdate, cartCount, _notificationQueue,
          _notificationShowing, notificationEls, displayTimers, page, orderList,
          totalPrice, listeners, customerName, customerPhone, specialInstructions,
          productId, currentBasePrice, currentExtrasTotal, currentDrinksTotal,
          currentQuantity, extras, drinks, extraQty, drinkQty, greens, sauce,
          customSauce, modalTotalDisplay, shown, lastAccess, last>>

(***************************************************************************)
(* Bounds of the model.                                                    *)
(***************************************************************************)
\* longest cart the page controllers build
MaxCart == 2
\* last instant (ms) the clock reaches
MaxNow == 1000
\* the clock advances in steps of this many ms
TickStep == 500
\* most click listeners registered on #order-list within one page load
MaxListeners == 4
\* most notifications waiting in the queue
MaxQueue == 1
\* longest cart in the runs of the order form
MaxSendCart == 1
\* number of distinct suffixes Math.random() yields in uniqueId
NumRand == 1
\* last instant (ms) the clock reaches in the runs of the notification queue
MaxNotifyNow == 6600
\* the user presses plus or minus on a quantity of at most this much (and
\* plus on a full one)
MaxClickQty == 1
\* the user changes the selection while the entries of the cart, cached and
\* stored, and the notifications of this page load are fewer than this
MaxBusyCart == 1
\* most notifications waiting in the runs of the notification queue
MaxNotifyQueue == 2
\* last instant (ms) at which a caller enqueues in the runs with fair timers
MaxBurstNow == 3300

(***************************************************************************)
(* Program constants.                                                      *)
(***************************************************************************)
_CACHE_DURATION == 1000
DebounceDelay == 50
VisibleDelay == 3000
ExitDelay == 300

\* the catalog (two of its products)
ProductIds == {"big-boss", "nix-mapha"}

\* the extras and drinks the product page offers, with their data-price
ExtraNames == {"Cheese", "Egg"}
DrinkNames == {"Coke"}
ExtraPrice == [n \in ExtraNames |-> IF n = "Cheese" THEN 10 ELSE 5]
DrinkPrice == [n \in DrinkNames |-> 15]

products ==
    [p \in ProductIds |->
        IF p = "big-boss" THEN [name |-> "BIG BOSS", price |-> 85]
                          ELSE [name |-> "NIX MAPHA", price |-> 17]]

(***************************************************************************)
(* Small helpers.                                                          *)
(***************************************************************************)
Min(a, b) == IF a < b THEN a ELSE b

Range(f) == {f[i] : i \in DOMAIN f}

RECURSIVE SumSeq(_)
SumSeq(q) == IF q = <<>> THEN 0 ELSE Head(q) + SumSeq(Tail(q))

\* Array.prototype.splice(index, 1): the array without its element at the
\* 0-based position index
splice1(arr, index) ==
    [i \in 1..(Len(arr) - 1) |-> IF i <= index THEN arr[i] ELSE arr[i + 1]]

\* Array.prototype.filter
RECURSIVE filterQty(_)
filterQty(a) ==
    IF a = <<>> THEN <<>>
    ELSE IF Head(a).quantity > 0 THEN <<Head(a)>> \o filterQty(Tail(a))
         ELSE filterQty(Tail(a))

\* Number.prototype.toFixed(2) of a whole amount: integer part and the two
\* decimals (all amounts of the model are whole rands)
toFixed2(x) == <<x, 0, 0>>

\* parseInt(v) || d  on a number
parseIntOr(v, d) == IF v = 0 THEN d ELSE v

\* the characters \s matches and trim() strips
isSpace(c) == c \in {" ", "\t", "\n"}

RECURSIVE trimStart(_)
trimStart(str) ==
    IF str # <<>> /\ isSpace(Head(str)) THEN trimStart(Tail(str)) ELSE str

RECURSIVE trimEnd(_)
trimEnd(str) ==
    IF str # <<>> /\ isSpace(str[Len(str)])
    THEN trimEnd(SubSeq(str, 1, Len(str) - 1)) ELSE str

\* String.prototype.trim
trim(str) == trimEnd(trimStart(str))

\* the text of an option is a sequence of pieces: a blank, one of the
\* characters a replace() strips, or a run of other characters
\* text.replace(/[*_~`]/g, '')  (the backquote is the piece "backquote")
stripMarkdown(text) ==
    SelectSeq(text, LAMBDA c : c \notin {"*", "_", "~", "backquote"})

\* a name is one string; MarkedName is the one name of the model that holds
\* characters a replace() strips
MarkedName == "<*Fanta*>"

\* String(name || '').replace(/[<>]/g, '')
nameNoAngle(name) == IF name = MarkedName THEN "*Fanta*" ELSE name

\* String(name || '').replace(/[*_~`]/g, '')
nameNoMarkdown(name) == IF name = MarkedName THEN "<Fanta>" ELSE name

(***************************************************************************)
(* localStorage text and JSON.                                             *)
(***************************************************************************)
\* getItem returns null for an absent key
NoItem == [kind |-> "null", val |-> <<>>]

JSONstringify(cart) == [kind |-> "array", val |-> cart]

\* JSON.parse: throws on text that is not JSON; an array only for kind "array"
JSONparse(text) ==
    [threw |-> text.kind = "invalid",
     isArray |-> text.kind = "array",
     val |-> text.val]

\* cartData ? ... : []  takes the second branch for null and for ""
falsy(text) == text.kind \in {"null", "empty"}

\* the cart a reader of the stored text sees
Persisted == IF storage.kind = "array" THEN storage.val ELSE <<>>

(***************************************************************************)
(* The program state as one record.                                        *)
(***************************************************************************)
St ==
    [storage |-> storage, setItemThrows |-> setItemThrows,
     getItemThrows |-> getItemThrows, now |-> now,
     _cartCache |-> _cartCache, _cartCacheTime |-> _cartCacheTime,
     updateTimeout |-> updateTimeout, pendingUpdate |-> pendingUpdate,
     cartCount |-> cartCount, _notificationQueue |-> _notificationQueue,
     _notificationShowing |-> _notificationShowing,
     notificationEls |-> notificationEls, displayTimers |-> displayTimers,
     page |-> page, orderList |-> orderList, totalPrice |-> totalPrice,
     listeners |-> listeners, customerName |-> customerName,
     customerPhone |-> customerPhone,
     specialInstructions |-> specialInstructions, productId |-> productId,
     currentBasePrice |-> currentBasePrice,
     currentExtrasTotal |-> currentExtrasTotal,
     currentDrinksTotal |-> currentDrinksTotal,
     currentQuantity |-> currentQuantity, extras |-> extras, drinks |-> drinks,
     extraQty |-> extraQty, drinkQty |-> drinkQty,
     greens |-> greens, sauce |-> sauce, customSauce |-> customSauce,
     modalTotalDisplay |-> modalTotalDisplay, shown |-> shown,
     lastAccess |-> lastAccess, last |-> last]

Commit(t) ==
    /\ storage' = t.storage
    /\ setItemThrows' = t.setItemThrows
    /\ getItemThrows' = t.getItemThrows
    /\ now' = t.now
    /\ _cartCache' = t._cartCache
    /\ _cartCacheTime' = t._cartCacheTime
    /\ updateTimeout' = t.updateTimeout
    /\ pendingUpdate' = t.pendingUpdate
    /\ cartCount' = t.cartCount
    /\ _notificationQueue' = t._notificationQueue
    /\ _notificationShowing' = t._notificationShowing
    /\ notificationEls' = t.notificationEls
    /\ displayTimers' = t.displayTimers
    /\ page' = t.page
    /\ orderList' = t.orderList
    /\ totalPrice' = t.totalPrice
    /\ listeners' = t.listeners
    /\ customerName' = t.customerName
    /\ customerPhone' = t.customerPhone
    /\ specialInstructions' = t.specialInstructions
    /\ productId' = t.productId
    /\ currentBasePrice' = t.currentBasePrice
    /\ currentExtrasTotal' = t.currentExtrasTotal
    /\ currentDrinksTotal' = t.currentDrinksTotal
    /\ currentQuantity' = t.currentQuantity
    /\ extras' = t.extras
    /\ drinks' = t.drinks
    /\ extraQty' = t.extraQty
    /\ drinkQty' = t.drinkQty
    /\ greens' = t.greens
    /\ sauce' = t.sauce
    /\ customSauce' = t.customSauce
    /\ modalTotalDisplay' = t.modalTotalDisplay
    /\ shown' = t.shown
    /\ lastAccess' = t.lastAccess
    /\ last' = t.last

\* no order message has been composed
NoMessage == [phone |-> <<>>, blocks |-> <<>>, total |-> <<>>]

\* the observation record at the start of handler op
Observe(op, arg) ==
    [op |-> op, arg |-> arg, ret |-> FALSE, val |-> <<>>, saves |-> 0,
     okSaves |-> 0, reads |-> 0, open |-> "none", notes |-> <<>>, ran |-> 0,
     msg |-> NoMessage]

Begin(s, op, arg) == [s EXCEPT !.last = Observe(op, arg)]

(***************************************************************************)
(* CartManager: the cart store.                                            *)
(***************************************************************************)
NullCache == [set |-> FALSE, val |-> <<>>]

\* the cache is served: it is set and younger than _CACHE_DURATION
cacheFresh(s) ==
    s._cartCache.set /\ (s.now - s._cartCacheTime) < _CACHE_DURATION

\* getCart returning whatever JSON.parse produced, array or not
getCart_unchecked(s) ==
    IF cacheFresh(s)
    THEN [s |-> s, cart |-> s._cartCache.val, isCache |-> TRUE]
    ELSE IF s.getItemThrows \/ (~falsy(s.storage) /\ JSONparse(s.storage).threw)
         THEN [s |-> [s EXCEPT !.lastAccess.at = s.now, !.last.reads = @ + 1],
               cart |-> <<>>, isCache |-> FALSE]
         ELSE LET cart == IF ~falsy(s.storage)
                          THEN JSONparse(s.storage).val ELSE <<>>
              IN [s |-> [s EXCEPT !._cartCache = [set |-> TRUE, val |-> cart],
                                  !._cartCacheTime = s.now,
                                  !.lastAccess = [at |-> s.now, okAt |-> s.now],
                                  !.last.reads = @ + 1],
                  cart |-> cart, isCache |-> TRUE]

\* getCart with a cache hit restarting the validity of the cache
getCart_hitRenews(s) ==
    IF cacheFresh(s)
    THEN [s |-> [s EXCEPT !._cartCacheTime = s.now],
          cart |-> s._cartCache.val, isCache |-> TRUE]
    ELSE IF s.getItemThrows \/ (~falsy(s.storage) /\ JSONparse(s.storage).threw)
         THEN [s |-> [s EXCEPT !.lastAccess.at = s.now, !.last.reads = @ + 1],
               cart |-> <<>>, isCache |-> FALSE]
         ELSE LET parsed == JSONparse(s.storage)
                  cart == IF ~falsy(s.storage) /\ parsed.isArray
                          THEN parsed.val ELSE <<>>
              IN [s |-> [s EXCEPT !._cartCache = [set |-> TRUE, val |-> cart],
                                  !._cartCacheTime = s.now,
                                  !.lastAccess = [at |-> s.now, okAt |-> s.now],
                                  !.last.reads = @ + 1],
                  cart |-> cart, isCache |-> TRUE]

\* getCart: the state after the call, the array returned, and whether that
\* array is the cache object (it is not when the read threw)
getCart(s) ==
    IF cacheFresh(s)
    THEN [s |-> s, cart |-> s._cartCache.val, isCache |-> TRUE]
    ELSE IF s.getItemThrows \/ (~falsy(s.storage) /\ JSONparse(s.storage).threw)
         THEN [s |-> [s EXCEPT !.lastAccess.at = s.now, !.last.reads = @ + 1],
               cart |-> <<>>, isCache |-> FALSE]
         ELSE LET parsed == JSONparse(s.storage)
                  cart == IF ~falsy(s.storage) /\ parsed.isArray
                          THEN parsed.val ELSE <<>>
              IN [s |-> [s EXCEPT !._cartCache = [set |-> TRUE, val |-> cart],
                                  !._cartCacheTime = s.now,
                                  !.lastAccess = [at |-> s.now, okAt |-> s.now],
                                  !.last.reads = @ + 1],
                  cart |-> cart, isCache |-> TRUE]

\* saveCart writing the storage but leaving the cache as it was
saveCart_keepsCache(s, cart) ==
    IF s.setItemThrows
    THEN [s |-> [s EXCEPT !.last.saves = @ + 1], ok |-> FALSE]
    ELSE [s |-> [s EXCEPT !.storage = JSONstringify(cart),
                          !.lastAccess = [at |-> s.now, okAt |-> s.now],
                          !.last.saves = @ + 1,
                          !.last.okSaves = @ + 1],
          ok |-> TRUE]

\* saveCart(cart) for an array argument: the state after and the value returned
saveCart(s, cart) ==
    IF s.setItemThrows
    THEN [s |-> [s EXCEPT !.last.saves = @ + 1], ok |-> FALSE]
    ELSE [s |-> [s EXCEPT !.storage = JSONstringify(cart),
                          !._cartCache = [set |-> TRUE, val |-> cart],
                          !._cartCacheTime = s.now,
                          !.lastAccess = [at |-> s.now, okAt |-> s.now],
                          !.last.saves = @ + 1,
                          !.last.okSaves = @ + 1],
          ok |-> TRUE]

\* a value handed to saveCart: an array, or anything else
ArrayValue(cart) == [isArray |-> TRUE, val |-> cart]
NotAnArray == [isArray |-> FALSE, val |-> <<>>]

\* saveCart without the Array.isArray guard
saveCartValue_noGuard(s, v) ==
    LET sv == saveCart(s, v.val)
    IN [s |-> [sv.s EXCEPT !.last.ret = sv.ok], ok |-> sv.ok]

\* saveCart(v) for any argument: the guard, then the write
saveCartValue(s, v) ==
    IF ~v.isArray
    THEN [s |-> s, ok |-> FALSE]
    ELSE LET sv == saveCart(s, v.val)
         IN [s |-> [sv.s EXCEPT !.last.ret = sv.ok], ok |-> sv.ok]

\* cart.push(item) / cart.splice(index, 1) on the array g.cart returned by
\* getCart: the array is changed in place, so the cache changes with it
cartMutate(g, newCart) ==
    IF g.isCache THEN [g.s EXCEPT !._cartCache.val = newCart] ELSE g.s

(***************************************************************************)
(* CartManager: the cart count.                                            *)
(***************************************************************************)
NoTimer == [set |-> FALSE, due |-> 0]

updateCartCount(s) ==
    IF s.updateTimeout.set
    THEN [s EXCEPT !.pendingUpdate = TRUE]
    ELSE [s EXCEPT !.updateTimeout = [set |-> TRUE, due |-> s.now + DebounceDelay]]

\* sum of the quantities as the reduce callback computes it
RECURSIVE totalItems(_)
totalItems(cart) ==
    IF cart = <<>> THEN 0
    ELSE LET quantity == parseIntOr(Head(cart).quantity, 0)
         IN (IF quantity > 0 THEN quantity ELSE 0) + totalItems(Tail(cart))

_updateCartCountImmediate(s) ==
    LET g == getCart(s)
    IN [g.s EXCEPT !.cartCount = totalItems(g.cart), !.last.ran = @ + 1]

\* the callback of the timer set by updateCartCount
updateTimeoutCallback(s) ==
    LET s1 == [s EXCEPT !.updateTimeout = NoTimer]
    IN IF s1.pendingUpdate
       THEN _updateCartCountImmediate([s1 EXCEPT !.pendingUpdate = FALSE])
       ELSE s1

(***************************************************************************)
(* CartManager: the order number.  The random values are wider than 31     *)
(* bits, so they are kept in 16-bit limbs, least                           *)
(* significant limb last: a Uint32 is <<hi, lo>>, and a Math.random()      *)
(* result is m * 2^-53 with the 53-bit m = <<a, b, c, d>> (a below 2^5).   *)
(***************************************************************************)
\* array[0] % 9000 for the Uint32 hi * 2^16 + lo
uint32Mod9000(word) == ((word[1] * (2^16 % 9000)) + word[2]) % 9000

\* the exact product m * 9000, in units of 2^-53: whole part, and the
\* fraction as the limbs <<f3, f2, f1, f0>> (f3 below 2^5)
randomTimes9000(m) ==
    LET t0 == m[4] * 9000
        t1 == m[3] * 9000 + (t0 \div 2^16)
        t2 == m[2] * 9000 + (t1 \div 2^16)
        t3 == m[1] * 9000 + (t2 \div 2^16)
    IN [whole |-> t3 \div 2^5,
        frac |-> <<t3 % 2^5, t2 % 2^16, t1 % 2^16, t0 % 2^16>>]

\* the binary exponent of a whole number from 1 to 2^14 - 1
exponentOf(n) == CHOOSE k \in 0..13 : 2^k <= n /\ n < 2^(k + 1)

\* Math.random() * 9000 as a double: the product is rounded to 53 significant
\* bits (ties to even); the rounded value is the next whole number when the
\* fraction is within half a unit in the last place of it, else it keeps
\* its whole part
productRoundsUp(prod) ==
    /\ prod.whole >= 1
    /\ prod.frac[1] = 2^5 - 1
    /\ prod.frac[2] = 2^16 - 1
    /\ prod.frac[3] = 2^16 - 1
    /\ prod.frac[4] >= 2^16 - 2^exponentOf(prod.whole)

\* Math.round in place of Math.floor
floorOfProduct_rounding(m) ==
    LET prod == randomTimes9000(m)
    IN IF prod.frac[1] >= 2^4 THEN prod.whole + 1 ELSE prod.whole

\* Math.floor(Math.random() * 9000)
floorOfProduct(m) ==
    LET prod == randomTimes9000(m)
    IN IF productRoundsUp(prod) THEN prod.whole + 1 ELSE prod.whole

\* generateOrderNumber; source tells whether window.crypto is there and
\* carries the value the random source yields
generateOrderNumber(source) ==
    IF source.crypto
    THEN uint32Mod9000(source.value) + 1000
    ELSE floorOfProduct(source.value) + 1000

(***************************************************************************)
(* CartManager: the notification queue.                                    *)
(***************************************************************************)
\* a fresh element: the smallest identity no live element or timer closure holds
NewElId(s) ==
    LET used == {e.id : e \in Range(s.notificationEls)}
                    \cup {t.el : t \in s.displayTimers}
    IN CHOOSE n \in 0..Cardinality(used) : n \notin used

\* _showNextNotification taking the newest queued item instead of the oldest
_showNextNotification_newestFirst(s) ==
    IF Len(s._notificationQueue) = 0
    THEN [s EXCEPT !._notificationShowing = FALSE]
    ELSE LET n == Len(s._notificationQueue)
             item == s._notificationQueue[n]
             kept == IF s.notificationEls = <<>> THEN <<>>
                     ELSE Tail(s.notificationEls)
             el == NewElId(s)
         IN [s EXCEPT !._notificationShowing = TRUE,
                      !._notificationQueue = SubSeq(@, 1, n - 1),
                      !.notificationEls =
                          Append(kept, [id |-> el, message |-> item.message,
                                        type |-> item.type]),
                      !.displayTimers =
                          @ \cup {[stage |-> "visible", el |-> el,
                                   due |-> s.now + VisibleDelay]},
                      !.shown = [count |-> @.count + 1, at |-> s.now]]

\* _showNextNotification returning on an empty queue without clearing the flag
_showNextNotification_flagKept(s) ==
    IF Len(s._notificationQueue) = 0
    THEN s
    ELSE LET item == Head(s._notificationQueue)
             kept == IF s.notificationEls = <<>> THEN <<>>
                     ELSE Tail(s.notificationEls)
             el == NewElId(s)
         IN [s EXCEPT !._notificationShowing = TRUE,
                      !._notificationQueue = Tail(@),
                      !.notificationEls =
                          Append(kept, [id |-> el, message |-> item.message,
                                        type |-> item.type]),
                      !.displayTimers =
                          @ \cup {[stage |-> "visible", el |-> el,
                                   due |-> s.now + VisibleDelay]},
                      !.shown = [count |-> @.count + 1, at |-> s.now]]

_showNextNotification(s) ==
    IF Len(s._notificationQueue) = 0
    THEN [s EXCEPT !._notificationShowing = FALSE]
    ELSE LET item == Head(s._notificationQueue)
             \* document.querySelector('.notification') is the first one
             kept == IF s.notificationEls = <<>> THEN <<>>
                     ELSE Tail(s.notificationEls)
             el == NewElId(s)
         IN [s EXCEPT !._notificationShowing = TRUE,
                      !._notificationQueue = Tail(@),
                      !.notificationEls =
                          Append(kept, [id |-> el, message |-> item.message,
                                        type |-> item.type]),
                      !.displayTimers =
                          @ \cup {[stage |-> "visible", el |-> el,
                                   due |-> s.now + VisibleDelay]},
                      !.shown = [count |-> @.count + 1, at |-> s.now]]

\* showNotification starting a display loop whether or not one is running
showNotification_alwaysShows(s, message, type) ==
    _showNextNotification(
        [s EXCEPT !._notificationQueue =
                      Append(@, [message |-> message, type |-> type]),
                  !.last.notes = Append(@, type)])

showNotification(s, message, type) ==
    LET s1 == [s EXCEPT !._notificationQueue =
                            Append(@, [message |-> message, type |-> type]),
                        !.last.notes = Append(@, type)]
    IN IF ~s1._notificationShowing THEN _showNextNotification(s1) ELSE s1

\* the outer callback starting the inner timer with no delay
visibleTimerCallback_noExitDelay(s, t) ==
    [s EXCEPT !.displayTimers =
                  (@ \ {t}) \cup {[stage |-> "exit", el |-> t.el,
                                   due |-> s.now]}]

\* the outer (3000 ms) callback: starts the exit animation, sets the inner timer
visibleTimerCallback(s, t) ==
    [s EXCEPT !.displayTimers =
                  (@ \ {t}) \cup {[stage |-> "exit", el |-> t.el,
                                   due |-> s.now + ExitDelay]}]

\* the inner callback removing its element without showing the next one
exitTimerCallback_noNext(s, t) ==
    [s EXCEPT !.displayTimers = @ \ {t},
              !.notificationEls = SelectSeq(@, LAMBDA e : e.id # t.el)]

\* the inner (300 ms) callback: removes its element if still attached, shows next
exitTimerCallback(s, t) ==
    LET s1 == [s EXCEPT !.displayTimers = @ \ {t},
                        !.notificationEls = SelectSeq(@, LAMBDA e : e.id # t.el)]
    IN _showNextNotification(s1)

(***************************************************************************)
(* Page controllers: the cart view (both pages run the same code).         *)
(***************************************************************************)
\* basePrice * quantity of one entry, as the render loop computes it
itemTotal(item) == item.basePrice * parseIntOr(item.quantity, 1)

RECURSIVE cartTotal(_)
cartTotal(cart) ==
    IF cart = <<>> THEN 0 ELSE itemTotal(Head(cart)) + cartTotal(Tail(cart))

\* the names and quantities formatOptionsForDisplay lists for the extras or
\* the drinks of an entry: those with parseInt(quantity) || 0 above 0
RECURSIVE displaySubList(_)
displaySubList(list) ==
    IF list = <<>> THEN <<>>
    ELSE LET quantity == parseIntOr(Head(list).quantity, 0)
         IN (IF quantity > 0
             THEN <<[name |-> nameNoAngle(Head(list).name),
                     quantity |-> quantity]>>
             ELSE <<>>) \o displaySubList(Tail(list))

\* one fragment of the options HTML: a greens or sauces line with its text,
\* or the extras or drinks heading with the lines under it
Fragment(tag, text, list) == [tag |-> tag, text |-> text, list |-> list]

\* the loop over item.options.split(' | '): one fragment for every segment
\* that starts with 'Greens:' or 'Sauces:'
RECURSIVE optionFragments(_)
optionFragments(options) ==
    IF options = <<>> THEN <<>>
    ELSE LET opt == Head(options)
             text == trim(opt.value)
             shownText == IF text = <<>> THEN <<"Not specified">> ELSE text
         IN (IF opt.key = "Greens:"
             THEN <<Fragment("greens", shownText, <<>>)>>
             ELSE IF opt.key = "Sauces:"
             THEN <<Fragment("sauces", shownText, <<>>)>>
             ELSE <<>>) \o optionFragments(Tail(options))

\* the fragment pushed for the extras (or the drinks) if one has a quantity
\* above 0
subFragment(tag, list) ==
    LET listed == displaySubList(list)
    IN IF listed # <<>> THEN <<Fragment(tag, <<>>, listed)>> ELSE <<>>

\* formatOptionsForDisplay listing the drinks before the extras
formatOptionsForDisplay_drinksFirst(item) ==
    optionFragments(item.options)
        \o subFragment("drinks", item.drinks)
        \o subFragment("extras", item.extras)

\* formatOptionsForDisplay(item): the fragments joined, <<>> for ''
formatOptionsForDisplay(item) ==
    optionFragments(item.options)
        \o subFragment("extras", item.extras)
        \o subFragment("drinks", item.drinks)

\* the <li> rows built for a cart: data-index of the remove button, the line
\* total shown, the options shown, and (for reference) the id of the entry
\* the row shows
cartRows(cart) ==
    [i \in 1..Len(cart) |->
        [index |-> i - 1, id |-> cart[i].id,
         price |-> toFixed2(itemTotal(cart[i])),
         options |-> formatOptionsForDisplay(cart[i])]]

\* updateCartDisplay: renders the cart, writes the total, and registers one
\* more click listener on #order-list
updateCartDisplay(s) ==
    LET g == getCart(s)
    IN [g.s EXCEPT !.orderList = cartRows(g.cart),
                   !.totalPrice = toFixed2(cartTotal(g.cart)),
                   !.listeners = @ + 1]

\* one click listener registered by updateCartDisplay, run for a click on the
\* remove button whose data-index is index
removeClickListener(s, index) ==
    LET g == getCart(s)
    IN IF index >= 0 /\ index < Len(g.cart)
       THEN LET cart == splice1(g.cart, index)
                sv == saveCart(cartMutate(g, cart), cart)
            IN updateCartCount(updateCartDisplay(sv.s))
       ELSE g.s

\* dispatch of one click: the n listeners registered when the click is
\* dispatched run one after the other (listeners added meanwhile do not)
RECURSIVE dispatchRemoveClick(_, _, _)
dispatchRemoveClick(s, index, n) ==
    IF n = 0 THEN s
    ELSE dispatchRemoveClick(removeClickListener(s, index), index, n - 1)

\* cartControls.open / openCart
openCart(s) == updateCartDisplay(s)

(***************************************************************************)
(* Page controllers: the product page.                                     *)
(***************************************************************************)
updateTotalDisplay(s) ==
    [s EXCEPT !.modalTotalDisplay =
                  toFixed2((s.currentBasePrice + s.currentExtrasTotal
                                + s.currentDrinksTotal) * s.currentQuantity)]

loadProduct(s, pid) ==
    IF pid \notin ProductIds
    THEN s
    ELSE updateTotalDisplay(
             [s EXCEPT !.productId = pid,
                       !.currentBasePrice = products[pid].price,
                       !.currentExtrasTotal = 0,
                       !.currentDrinksTotal = 0,
                       !.currentQuantity = 1,
                       !.extras = <<>>,
                       !.drinks = <<>>,
                       !.sauce = "No Sauce"])

\* resetProductForm leaving the quantity and the selected extras and drinks
resetProductForm_keepsSelection(s) ==
    updateTotalDisplay(
        [s EXCEPT !.greens = "Yes",
                  !.sauce = "No Sauce",
                  !.customSauce = <<>>])

resetProductForm(s) ==
    updateTotalDisplay(
        [s EXCEPT !.currentQuantity = 1,
                  !.extraQty = [n \in ExtraNames |-> 0],
                  !.drinkQty = [n \in DrinkNames |-> 0],
                  !.extras = <<>>,
                  !.drinks = <<>>,
                  !.currentExtrasTotal = 0,
                  !.currentDrinksTotal = 0,
                  !.greens = "Yes",
                  !.sauce = "No Sauce",
                  !.customSauce = <<>>])

\* the quantity controls: the limits of every quantity field
MinQuantity == 1
MaxQuantity == 10

\* text typed into a quantity field, as parseInt(text, 10) reads it
NaN == [nan |-> TRUE, n |-> 0]
Num(n) == [nan |-> FALSE, n |-> n]

\* parseInt(text, 10) || 0
parseIntOrZero(typed) == IF typed.nan THEN 0 ELSE typed.n

\* Array.prototype.findIndex(e => e.name === name), 0-based, -1 if none
findIndex(list, name) ==
    IF \E i \in DOMAIN list : list[i].name = name
    THEN (CHOOSE i \in DOMAIN list :
             /\ list[i].name = name
             /\ \A j \in 1..(i - 1) : list[j].name # name) - 1
    ELSE -1

\* the reduce of updateExtra / updateDrink
listTotal(list) == SumSeq([i \in DOMAIN list |-> list[i].price * list[i].quantity])

\* click on .qty-minus
qtyMinusClick(s) ==
    IF s.currentQuantity > MinQuantity
    THEN updateTotalDisplay([s EXCEPT !.currentQuantity = @ - 1])
    ELSE s

\* click on .qty-plus
qtyPlusClick(s) ==
    IF s.currentQuantity < MaxQuantity
    THEN updateTotalDisplay([s EXCEPT !.currentQuantity = @ + 1])
    ELSE s

\* the input handler of .modal-qty without its upper limit
quantityInput_noUpperLimit(s, typed) ==
    updateTotalDisplay(
        [s EXCEPT !.currentQuantity =
                      IF typed.nan \/ typed.n < MinQuantity THEN MinQuantity
                      ELSE typed.n])

\* input event on .modal-qty
quantityInput(s, typed) ==
    LET v1 == IF typed.nan \/ typed.n < MinQuantity THEN MinQuantity
              ELSE typed.n
        value == IF v1 > MaxQuantity THEN MaxQuantity ELSE v1
    IN updateTotalDisplay([s EXCEPT !.currentQuantity = value])

\* updateExtra keeping an element whose quantity has become 0
updateExtra_keepsZero(s, name, price, quantity) ==
    LET index == findIndex(s.extras, name)
        list == IF index > -1
                THEN [s.extras EXCEPT ![index + 1].quantity = quantity]
                ELSE Append(s.extras, [name |-> name, price |-> price,
                                       quantity |-> quantity])
    IN updateTotalDisplay(
           [s EXCEPT !.extras = list, !.currentExtrasTotal = listTotal(list)])

updateExtra(s, name, price, quantity) ==
    LET index == findIndex(s.extras, name)
        list == IF quantity = 0 /\ index > -1
                THEN splice1(s.extras, index)
                ELSE IF quantity > 0
                THEN IF index > -1
                     THEN [s.extras EXCEPT ![index + 1].quantity = quantity]
                     ELSE Append(s.extras, [name |-> name, price |-> price,
                                            quantity |-> quantity])
                ELSE s.extras
    IN updateTotalDisplay(
           [s EXCEPT !.extras = list, !.currentExtrasTotal = listTotal(list)])

\* updateDrink leaving currentDrinksTotal as it was
updateDrink_staleTotal(s, name, price, quantity) ==
    LET index == findIndex(s.drinks, name)
        list == IF quantity = 0 /\ index > -1
                THEN splice1(s.drinks, index)
                ELSE IF quantity > 0
                THEN IF index > -1
                     THEN [s.drinks EXCEPT ![index + 1].quantity = quantity]
                     ELSE Append(s.drinks, [name |-> name, price |-> price,
                                            quantity |-> quantity])
                ELSE s.drinks
    IN updateTotalDisplay([s EXCEPT !.drinks = list])

updateDrink(s, name, price, quantity) ==
    LET index == findIndex(s.drinks, name)
        list == IF quantity = 0 /\ index > -1
                THEN splice1(s.drinks, index)
                ELSE IF quantity > 0
                THEN IF index > -1
                     THEN [s.drinks EXCEPT ![index + 1].quantity = quantity]
                     ELSE Append(s.drinks, [name |-> name, price |-> price,
                                            quantity |-> quantity])
                ELSE s.drinks
    IN updateTotalDisplay(
           [s EXCEPT !.drinks = list, !.currentDrinksTotal = listTotal(list)])

\* click on .extra-minus / .extra-plus of the extra called name
extraMinusClick(s, name) ==
    LET value == s.extraQty[name]
    IN IF value > 0
       THEN updateExtra([s EXCEPT !.extraQty[name] = value - 1],
                        name, ExtraPrice[name], value - 1)
       ELSE s

extraPlusClick(s, name) ==
    LET value == s.extraQty[name]
    IN IF value < MaxQuantity
       THEN updateExtra([s EXCEPT !.extraQty[name] = value + 1],
                        name, ExtraPrice[name], value + 1)
       ELSE s

\* click on .drink-minus / .drink-plus of the drink called name
drinkMinusClick(s, name) ==
    LET value == s.drinkQty[name]
    IN IF value > 0
       THEN updateDrink([s EXCEPT !.drinkQty[name] = value - 1],
                        name, DrinkPrice[name], value - 1)
       ELSE s

drinkPlusClick(s, name) ==
    LET value == s.drinkQty[name]
    IN IF value < MaxQuantity
       THEN updateDrink([s EXCEPT !.drinkQty[name] = value + 1],
                        name, DrinkPrice[name], value + 1)
       ELSE s

\* input event on an .extra-qty / .drink-qty field
extraQtyInput(s, name, typed) ==
    LET v0 == parseIntOrZero(typed)
        v1 == IF v0 < 0 THEN 0 ELSE v0
        value == IF v1 > MaxQuantity THEN MaxQuantity ELSE v1
    IN updateExtra([s EXCEPT !.extraQty[name] = value],
                   name, ExtraPrice[name], value)

drinkQtyInput(s, name, typed) ==
    LET v0 == parseIntOrZero(typed)
        v1 == IF v0 < 0 THEN 0 ELSE v0
        value == IF v1 > MaxQuantity THEN MaxQuantity ELSE v1
    IN updateDrink([s EXCEPT !.drinkQty[name] = value],
                   name, DrinkPrice[name], value)

\* change event on a sauce radio: leaving "Custom" unchecks the custom sauces
sauceChange(s, value) ==
    [s EXCEPT !.sauce = value,
              !.customSauce = IF value = "Custom" THEN @ ELSE <<>>]

\* the options collected by the add-to-cart handler; the options string is the
\* ' | '-joined list of these segments, each a key followed by the rest of
\* the segment (a blank and the choice)
collectOptions(s) ==
    (IF s.greens # ""
     THEN <<[key |-> "Greens:",
             value |-> IF s.greens = "Yes" THEN <<" ", "with greens">>
                       ELSE <<" ", "no greens">>]>>
     ELSE <<>>)
    \o
    (IF s.sauce # ""
     THEN <<[key |-> "Sauces:",
             value |-> <<" ">> \o
                       (IF s.sauce = "Custom"
                        THEN (IF Len(s.customSauce) > 0 THEN s.customSauce
                              ELSE <<"no sauces">>)
                        ELSE IF s.sauce = "All" THEN <<"all sauces">>
                        ELSE IF s.sauce = "No Sauce" THEN <<"no sauces">>
                        ELSE <<s.sauce>>)]>>
     ELSE <<>>)

\* uniqueId: product id, Date.now() and the Math.random() suffix r
uniqueId(s, r) == <<s.productId, s.now, r>>

newCartItem(s, r) ==
    [id |-> uniqueId(s, r),
     productId |-> s.productId,
     name |-> products[s.productId].name,
     basePrice |-> products[s.productId].price + s.currentExtrasTotal
                       + s.currentDrinksTotal,
     quantity |-> s.currentQuantity,
     options |-> collectOptions(s),
     extras |-> filterQty(s.extras),
     drinks |-> filterQty(s.drinks),
     baseProductPrice |-> products[s.productId].price]

\* click handler of #modalAddToCart
addToCartClick(s, r) ==
    IF s.productId = ""
    THEN showNotification(s, <<"Product data incomplete">>, "error")
    ELSE LET g == getCart(s)
             cart == Append(g.cart, newCartItem(s, r))
             sv == saveCart(cartMutate(g, cart), cart)
         IN IF sv.ok
            THEN resetProductForm(updateCartCount(openCart(
                     showNotification(sv.s,
                         <<products[s.productId].name, " added to cart!">>,
                         "success"))))
            ELSE showNotification(sv.s, <<"Failed to add item">>, "error")

(***************************************************************************)
(* Page load.                                                              *)
(***************************************************************************)
\* the script's state when it has just been evaluated on a freshly parsed
\* page: CartManager's literal, the closure of updateCartCount, the page
\* controller's variables and the static HTML
freshPage(s, p) ==
    [s EXCEPT !.page = p,
              !._cartCache = NullCache,
              !._cartCacheTime = 0,
              !.updateTimeout = NoTimer,
              !.pendingUpdate = FALSE,
              !.cartCount = 0,
              !._notificationQueue = <<>>,
              !._notificationShowing = FALSE,
              !.notificationEls = <<>>,
              !.displayTimers = {},
              !.orderList = <<>>,
              !.totalPrice = toFixed2(0),
              !.listeners = 0,
              !.customerName = <<>>,
              !.customerPhone = <<>>,
              !.specialInstructions = <<>>,
              !.productId = "",
              !.currentBasePrice = 0,
              !.currentExtrasTotal = 0,
              !.currentDrinksTotal = 0,
              !.currentQuantity = 1,
              !.extras = <<>>,
              !.drinks = <<>>,
              !.extraQty = [n \in ExtraNames |-> 0],
              !.drinkQty = [n \in DrinkNames |-> 0],
              !.greens = IF p = "product" THEN "Yes" ELSE "",
              !.sauce = "",
              !.customSauce = <<>>,
              !.modalTotalDisplay = toFixed2(0),
              !.shown = [count |-> 0, at |-> 0],
              !.lastAccess = [at |-> 0, okAt |-> 0]]

\* the DOMContentLoaded listeners, in registration order: the page's own
\* (INITIALIZE section) and the one at the end of the script
domContentLoaded(s, p, pid) ==
    LET s0 == freshPage(s, p)
        s1 == IF p = "product" THEN loadProduct(s0, pid) ELSE s0
        s2 == updateCartDisplay(updateCartCount(s1))
        \* product page: the default sauce radio is checked last
        s3 == IF p = "product" THEN [s2 EXCEPT !.sauce = "No Sauce"] ELSE s2
    IN updateCartCount(s3)

(***************************************************************************)
(* Text of the input fields: a string is a sequence of characters.         *)
(***************************************************************************)
Digits == {"0", "1", "2", "3", "4", "5", "6", "7", "8", "9"}

\* phone.replace(/\s/g, '')
cleanPhone(phone) == SelectSeq(phone, LAMBDA c : ~isSpace(c))

\* the pattern without its end anchor: any number of digits may follow
phoneRegexTest_noEndAnchor(p) ==
    LET rest(k) == /\ Len(p) >= k + 9
                   /\ p[k + 1] \in Digits \ {"0"}
                   /\ \A i \in (k + 2)..(k + 9) : p[i] \in Digits
    IN \/ (Len(p) >= 3 /\ SubSeq(p, 1, 3) = <<"+", "2", "7">> /\ rest(3))
       \/ (Len(p) >= 1 /\ p[1] = "0" /\ rest(1))

\* /^(\+27|0)[1-9]\d{8}$/.test(p)
phoneRegexTest(p) ==
    LET rest(k) == /\ Len(p) = k + 9
                   /\ p[k + 1] \in Digits \ {"0"}
                   /\ \A i \in (k + 2)..(k + 9) : p[i] \in Digits
    IN \/ (Len(p) >= 3 /\ SubSeq(p, 1, 3) = <<"+", "2", "7">> /\ rest(3))
       \/ (Len(p) >= 1 /\ p[1] = "0" /\ rest(1))

(***************************************************************************)
(* CartManager: the order composer.                                        *)
(***************************************************************************)
\* str.replace(/^prefix/, '0'): a leading prefix is rewritten to "0"
replacePrefix(str, prefix) ==
    IF Len(str) >= Len(prefix) /\ SubSeq(str, 1, Len(prefix)) = prefix
    THEN <<"0">> \o SubSeq(str, Len(prefix) + 1, Len(str))
    ELSE str

\* displayPhone without the rewriting of the international prefix
displayPhone_asTyped(cleanedPhone) == cleanedPhone

\* cleanedPhone.replace(/^\+27/, '0').replace(/^27/, '0')
displayPhone(cleanedPhone) ==
    replacePrefix(replacePrefix(cleanedPhone, <<"+", "2", "7">>), <<"2", "7">>)

\* the names and quantities listed for the extras or drinks of an entry:
\* those with parseInt(quantity) || 0 above 0
RECURSIVE orderSubList(_)
orderSubList(list) ==
    IF list = <<>> THEN <<>>
    ELSE LET quantity == parseIntOr(Head(list).quantity, 0)
         IN (IF quantity > 0
             THEN <<[name |-> nameNoMarkdown(Head(list).name),
                     quantity |-> quantity]>>
             ELSE <<>>) \o orderSubList(Tail(list))

\* the option lines of a block: the segments of item.options that start with
\* 'Greens:' or 'Sauces:', the greens printed as one of two fixed texts, the
\* sauces as one of two fixed texts or as typed without markdown characters
orderOptions(options) ==
    LET kept == SelectSeq(options, LAMBDA o : o.key \in {"Greens:", "Sauces:"})
    IN [i \in DOMAIN kept |->
           LET text == trim(kept[i].value)
           IN IF kept[i].key = "Greens:"
              THEN [key |-> "Greens:",
                    value |-> IF text = <<"with greens">>
                              THEN <<"with greens">> ELSE <<"no greens">>]
              ELSE [key |-> "Sauces:",
                    value |-> IF text = <<"all sauces">> THEN <<"all sauces">>
                              ELSE IF text = <<"no sauces">> THEN <<"no sauces">>
                              ELSE stripMarkdown(text)]]

\* the line total of the order loop charging the unit price whatever the
\* quantity
orderItemTotal_unitPrice(item) == item.basePrice

\* basePrice * quantity of one entry, as the order loop computes it
orderItemTotal(item) == item.basePrice * parseIntOr(item.quantity, 1)

\* the numbered block the order loop writes for cart[i] (i counts from 0)
orderBlock(cart, i) ==
    LET item == cart[i + 1]
    IN [number |-> i + 1,
        name |-> nameNoMarkdown(item.name),
        quantity |-> parseIntOr(item.quantity, 1),
        price |-> toFixed2(orderItemTotal(item)),
        options |-> orderOptions(item.options),
        extras |-> orderSubList(item.extras),
        drinks |-> orderSubList(item.drinks)]

\* the order loop: the blocks written and the running cartTotal after the
\* first n entries
RECURSIVE orderLoop(_, _)
orderLoop(cart, n) ==
    IF n = 0 THEN [blocks |-> <<>>, cartTotal |-> 0]
    ELSE LET before == orderLoop(cart, n - 1)
         IN [blocks |-> Append(before.blocks, orderBlock(cart, n - 1)),
             cartTotal |-> before.cartTotal + orderItemTotal(cart[n])]

\* the message sendWhatsAppOrder builds once the guards have passed: the
\* phone line, the item blocks and the TOTAL AMOUNT line
composeOrder(s, cart) ==
    LET cleanedPhone == cleanPhone(trim(s.customerPhone))
        loop == orderLoop(cart, Len(cart))
    IN [phone |-> displayPhone(cleanedPhone),
        blocks |-> loop.blocks,
        total |-> toFixed2(loop.cartTotal)]

\* sendRejection without the empty-cart guard
sendRejection_noEmptyGuard(s, cart) ==
    LET name == trim(s.customerName)
        phone == trim(s.customerPhone)
    IN IF name = <<>> \/ phone = <<>>
       THEN <<"Please enter your name and phone number">>
       ELSE IF ~phoneRegexTest(cleanPhone(phone))
       THEN <<"Please enter a valid South African phone number">>
       ELSE <<>>

\* sendRejection without the phone pattern test
sendRejection_noPhoneTest(s, cart) ==
    LET name == trim(s.customerName)
        phone == trim(s.customerPhone)
    IN IF Len(cart) = 0
       THEN <<"Your cart is empty!">>
       ELSE IF name = <<>> \/ phone = <<>>
       THEN <<"Please enter your name and phone number">>
       ELSE <<>>

\* the guards of sendWhatsAppOrder before any message is built: the text of
\* the error notification, or <<>> when the order may be sent
sendRejection(s, cart) ==
    LET name == trim(s.customerName)
        phone == trim(s.customerPhone)
    IN IF Len(cart) = 0
       THEN <<"Your cart is empty!">>
       ELSE IF name = <<>> \/ phone = <<>>
       THEN <<"Please enter your name and phone number">>
       ELSE IF ~phoneRegexTest(cleanPhone(phone))
       THEN <<"Please enter a valid South African phone number">>
       ELSE <<>>

\* openAndClear clearing the cart and the form before window.open answers
openAndClear_clearsFirst(s, openResult) ==
    LET sv == saveCart([s EXCEPT !.last.open = openResult], <<>>)
        s2 == _updateCartCountImmediate(sv.s)
        s3 == [s2 EXCEPT !.customerName = <<>>,
                         !.customerPhone = <<>>,
                         !.specialInstructions = <<>>]
    IN IF openResult = "null"
       THEN showNotification(s3, <<"Please allow pop-ups to send the order">>,
                             "error")
       ELSE IF openResult = "throws"
       THEN showNotification(s3, <<"Could not open WhatsApp">>, "error")
       ELSE [showNotification(s3,
                 <<"Order sent successfully! Check WhatsApp.">>, "success")
             EXCEPT !.last.ret = TRUE]

\* the end of sendWhatsAppOrder: window.open, whose outcome openResult is
\* "window" (a window object), "null" (pop-up blocked) or "throws"; then the
\* cart and the form are cleared
openAndClear(s, openResult) ==
    LET s1 == [s EXCEPT !.last.open = openResult]
    IN IF openResult = "null"
       THEN showNotification(s1, <<"Please allow pop-ups to send the order">>,
                             "error")
       ELSE IF openResult = "throws"
       THEN showNotification(s1, <<"Could not open WhatsApp">>, "error")
       ELSE LET sv == saveCart(s1, <<>>)
                s2 == _updateCartCountImmediate(sv.s)
                s3 == [s2 EXCEPT !.customerName = <<>>,
                                 !.customerPhone = <<>>,
                                 !.specialInstructions = <<>>]
                s4 == showNotification(s3,
                          <<"Order sent successfully! Check WhatsApp.">>,
                          "success")
            IN [s4 EXCEPT !.last.ret = TRUE]

sendWhatsAppOrder(s, openResult) ==
    LET g == getCart(s)
        rejection == sendRejection(g.s, g.cart)
    IN IF rejection # <<>>
       THEN showNotification(g.s, rejection, "error")
       ELSE openAndClear([g.s EXCEPT !.last.msg = composeOrder(g.s, g.cart)],
                         openResult)

\* click handler of #whatsapp-btn (listing page)
whatsappBtnClick(s, openResult) ==
    LET s1 == sendWhatsAppOrder(s, openResult)
    IN IF s1.last.ret THEN updateCartDisplay(s1) ELSE s1

(***************************************************************************)
(* Initial state: the first page load of a browser with no stored cart.    *)
(***************************************************************************)
Blank ==
    [storage |-> NoItem, setItemThrows |-> FALSE, getItemThrows |-> FALSE,
     now |-> 0, _cartCache |-> NullCache, _cartCacheTime |-> 0,
     updateTimeout |-> NoTimer, pendingUpdate |-> FALSE, cartCount |-> 0,
     _notificationQueue |-> <<>>, _notificationShowing |-> FALSE,
     notificationEls |-> <<>>, displayTimers |-> {}, page |-> "main",
     orderList |-> <<>>, totalPrice |-> toFixed2(0), listeners |-> 0,
     customerName |-> <<>>, customerPhone |-> <<>>,
     specialInstructions |-> <<>>, productId |-> "", currentBasePrice |-> 0,
     currentExtrasTotal |-> 0, currentDrinksTotal |-> 0, currentQuantity |-> 1,
     extras |-> <<>>, drinks |-> <<>>,
     extraQty |-> [n \in ExtraNames |-> 0],
     drinkQty |-> [n \in DrinkNames |-> 0], greens |-> "", sauce |-> "",
     customSauce |-> <<>>, modalTotalDisplay |-> toFixed2(0),
     shown |-> [count |-> 0, at |-> 0], lastAccess |-> [at |-> 0, okAt |-> 0],
     last |-> Observe("idle", 0)]

Start(t) ==
    /\ storage = t.storage
    /\ setItemThrows = t.setItemThrows
    /\ getItemThrows = t.getItemThrows
    /\ now = t.now
    /\ _cartCache = t._cartCache
    /\ _cartCacheTime = t._cartCacheTime
    /\ updateTimeout = t.updateTimeout
    /\ pendingUpdate = t.pendingUpdate
    /\ cartCount = t.cartCount
    /\ _notificationQueue = t._notificationQueue
    /\ _notificationShowing = t._notificationShowing
    /\ notificationEls = t.notificationEls
    /\ displayTimers = t.displayTimers
    /\ page = t.page
    /\ orderList = t.orderList
    /\ totalPrice = t.totalPrice
    /\ listeners = t.listeners
    /\ customerName = t.customerName
    /\ customerPhone = t.customerPhone
    /\ specialInstructions = t.specialInstructions
    /\ productId = t.productId
    /\ currentBasePrice = t.currentBasePrice
    /\ currentExtrasTotal = t.currentExtrasTotal
    /\ currentDrinksTotal = t.currentDrinksTotal
    /\ currentQuantity = t.currentQuantity
    /\ extras = t.extras
    /\ drinks = t.drinks
    /\ extraQty = t.extraQty
    /\ drinkQty = t.drinkQty
    /\ greens = t.greens
    /\ sauce = t.sauce
    /\ customSauce = t.customSauce
    /\ modalTotalDisplay = t.modalTotalDisplay
    /\ shown = t.shown
    /\ lastAccess = t.lastAccess
    /\ last = t.last

\* the pages a navigation can load: the listing page, or the product page
\* for a catalog product or for a ?product= value the catalog lacks ("")
LoadTargets ==
    {<<"main", "">>} \cup {<<"product", pid>> : pid \in ProductIds \cup {""}}

Init == \E tg \in LoadTargets \ {<<"product", "">>} : Start(domContentLoaded(Blank, tg[1], tg[2]))

(***************************************************************************)
(* Actions: one per event the script handles.                              *)
(***************************************************************************)
\* navigation to (or reload of) a page: the script is evaluated afresh
PageLoad(tg) ==
    \E t \in {domContentLoaded(Begin(St, "idle", 0), tg[1], tg[2])} : Commit(t)

\* click on #cartToggle / #floatingCartBtn
OpenCartClick ==
    /\ listeners < MaxListeners
    /\ \E t \in {openCart(Begin(St, "idle", 0))} : Commit(t)

\* click on the remove button rendered with data-index k
RemoveClick(k) ==
    /\ k \in 0..(Len(orderList) - 1)
    /\ \E t \in {dispatchRemoveClick(Begin(St, "remove", k), k, listeners)} :
          /\ t.listeners <= MaxListeners
          /\ Commit(t)

\* click on #modalAddToCart
AddToCartClick(r) ==
    /\ page = "product"
    /\ Len(getCart(St).cart) < MaxCart
    /\ Len(_notificationQueue) < MaxQueue
    /\ listeners < MaxListeners
    /\ \E t \in {addToCartClick(Begin(St, "add", 0), r)} : Commit(t)

\* the 50 ms timer of updateCartCount fires
UpdateTimeoutFire ==
    /\ updateTimeout.set
    /\ now >= updateTimeout.due
    /\ \E t \in {updateTimeoutCallback(Begin(St, "countTimer", 0))} : Commit(t)

\* time passes
Tick ==
    /\ now + TickStep <= MaxNow
    /\ \E t \in {[Begin(St, "idle", 0) EXCEPT !.now = @ + TickStep]} : Commit(t)

\* localStorage starts or stops refusing writes (quota, private mode)
StorageFault ==
    \E t \in {[Begin(St, "idle", 0) EXCEPT !.setItemThrows = ~@]} : Commit(t)

\* another tab of the same origin adds an entry on its product page and
\* writes the cart back
OtherTabAdd(pid, r) ==
    /\ ~setItemThrows
    /\ Len(Persisted) < MaxCart
    /\ LET other == loadProduct(freshPage(St, "product"), pid)
       IN \E t \in {[Begin(St, "idle", 0) EXCEPT
                         !.storage = JSONstringify(
                                         Append(Persisted, newCartItem(other, r)))]} :
              Commit(t)

\* the user edits an input field of the order form (listing page)
NameInputs == {<<>>, <<" ">>, <<"A", "l">>}

PhoneInputs ==
    {<<>>,
     <<"1", "2", "3">>,
     <<"0", "8", "2", "1", "2", "3", "4", "5", "6", "7">>,
     <<"+", "2", "7", " ", "8", "2", "1", "2", "3", "4", "5", "6", "7">>}

InstructionInputs == {<<>>, <<"x">>}

InputName(v) ==
    /\ page = "main"
    /\ \E t \in {[Begin(St, "idle", 0) EXCEPT !.customerName = v]} : Commit(t)

InputPhone(v) ==
    /\ page = "main"
    /\ \E t \in {[Begin(St, "idle", 0) EXCEPT !.customerPhone = v]} : Commit(t)

InputInstructions(v) ==
    /\ page = "main"
    /\ \E t \in {[Begin(St, "idle", 0) EXCEPT !.specialInstructions = v]} :
          Commit(t)

\* click on #whatsapp-btn; window.open answers openResult if it is called
WhatsappClick(openResult) ==
    /\ page = "main"
    /\ Len(_notificationQueue) < MaxQueue
    /\ listeners < MaxListeners
    /\ \E t \in {whatsappBtnClick(Begin(St, "send", 0), openResult)} : Commit(t)

OpenResults == {"window", "null", "throws"}

Rand == 0..(NumRand - 1)

Next ==
    \/ \E tg \in LoadTargets \ {<<"product", "">>} : PageLoad(tg)
    \/ OpenCartClick
    \/ \E k \in 0..(MaxCart - 1) : RemoveClick(k)
    \/ \E r \in Rand : AddToCartClick(r)
    \/ UpdateTimeoutFire
    \/ Tick
    \/ StorageFault
    \/ \E pid \in ProductIds, r \in Rand : OtherTabAdd(pid, r)

Spec == Init /\ [][Next]_vars

\* the same tab alone: no other tab writes the stored cart
NextOneTab ==
    \/ \E tg \in LoadTargets \ {<<"product", "">>} : PageLoad(tg)
    \/ OpenCartClick
    \/ \E k \in 0..(MaxCart - 1) : RemoveClick(k)
    \/ \E r \in Rand : AddToCartClick(r)
    \/ UpdateTimeoutFire
    \/ Tick
    \/ StorageFault

SpecOneTab == Init /\ [][NextOneTab]_vars

\* the listing page with its order form; the cart is filled from a product
\* page open in another tab
InitSend == Start(domContentLoaded(Blank, "main", ""))

OtherTabFill ==
    /\ Len(Persisted) < MaxSendCart
    /\ OtherTabAdd("big-boss", 0)

NextSend ==
    \/ PageLoad(<<"main", "">>)
    \/ \E v \in NameInputs : InputName(v)
    \/ \E v \in PhoneInputs : InputPhone(v)
    \/ \E v \in InstructionInputs : InputInstructions(v)
    \/ \E o \in OpenResults : WhatsappClick(o)
    \/ UpdateTimeoutFire
    \/ Tick
    \/ StorageFault
    \/ OtherTabFill

SpecSend == InitSend /\ [][NextSend]_vars

\* the listing page over a cart that product pages have stored: the user
\* fills the order form and sends
MaxOrderCart == 2

\* an entry as the add-to-cart handler builds it for product pid with
\* quantity q typed, and two of an extra and one drink chosen if withExtras
OrderEntry(pid, q, withExtras, r) ==
    LET s0 == quantityInput(loadProduct(freshPage(Blank, "product"), pid), Num(q))
        s1 == IF withExtras
              THEN drinkPlusClick(extraQtyInput(s0, "Cheese", Num(2)), "Coke")
              ELSE s0
    IN newCartItem(s1, r)

OrderQuantities == {MinQuantity, 3}

\* the carts: each entry one of the two products, in one of the quantities,
\* the second product with the extras and the drink
OrderCarts ==
    UNION {[1..n -> ProductIds \X OrderQuantities] : n \in 0..MaxOrderCart}

OrderCart(choice) ==
    [i \in DOMAIN choice |->
        OrderEntry(choice[i][1], choice[i][2], choice[i][1] = "nix-mapha", i)]

OrderPhoneInputs ==
    {<<"1", "2", "3">>,
     <<"0", "8", "2", "1", "2", "3", "4", "5">>,
     <<"0", "8", "2", "1", "2", "3", "4", "5", "6", "7">>,
     <<"0", "8", "2", "1", "2", "3", "4", "5", "6", "7", "8">>,
     <<"0", "0", "2", "1", "2", "3", "4", "5", "6", "7">>,
     <<"2", "7", "8", "2", "1", "2", "3", "4", "5", "6", "7">>,
     <<"+", "2", "7", "8", "2", "1", "2", "3", "4", "5", "6", "7">>,
     <<" ", "+", "2", "7", " ", "8", "2", " ", "1", "2", "3", "4", "5", "6", "7">>}

InitOrder ==
    \E choice \in OrderCarts :
        Start(domContentLoaded(
                  [Blank EXCEPT !.storage = JSONstringify(OrderCart(choice)),
                                !.customerName = <<"A", "l">>],
                  "main", ""))

NextOrder ==
    \/ \E v \in NameInputs : InputName(v)
    \/ \E v \in OrderPhoneInputs : InputPhone(v)
    \/ \E o \in OpenResults : WhatsappClick(o)

SpecOrder == InitOrder /\ [][NextOrder]_vars

\* generateOrderNumber on its own, over the values of both random sources
\* (the smallest, the largest, and those around a multiple of 9000)
LimbSamples == {0, 1, 8999, 9000, 2^16 - 1}
TopLimbSamples == {0, 1, 2^5 - 1}

CryptoSources ==
    {[crypto |-> TRUE, value |-> w] : w \in LimbSamples \X LimbSamples}

MathRandomSources ==
    {[crypto |-> FALSE, value |-> m] :
        m \in TopLimbSamples \X LimbSamples \X LimbSamples \X LimbSamples}

GenerateOrderNumber(source) ==
    \E t \in {[Begin(St, "orderNumber", source) EXCEPT
                   !.last.val = generateOrderNumber(source)]} : Commit(t)

NextOrderNumber ==
    \/ \E source \in CryptoSources : GenerateOrderNumber(source)
    \/ \E source \in MathRandomSources : GenerateOrderNumber(source)

SpecOrderNumber == InitSend /\ [][NextOrderNumber]_vars

\* the notification queue on its own: callers enqueue, the two timers of the
\* display loop fire when due
NotifyMessages == {<<"Added to cart">>, <<"Your cart is empty!">>}
NotifyTypes == {"success", "error"}

ShowNotification(message, type) ==
    /\ Len(_notificationQueue) < MaxNotifyQueue
    /\ \E t \in {showNotification(Begin(St, "notify", message), message, type)} :
           Commit(t)

VisibleTimerFire(tm) ==
    /\ tm.stage = "visible"
    /\ now >= tm.due
    /\ \E t \in {visibleTimerCallback(Begin(St, "visibleTimer", 0), tm)} :
           Commit(t)

ExitTimerFire(tm) ==
    /\ tm.stage = "exit"
    /\ now >= tm.due
    /\ \E t \in {exitTimerCallback(Begin(St, "exitTimer", 0), tm)} : Commit(t)

NotifyTick(d) ==
    /\ now + d <= MaxNotifyNow
    /\ \E t \in {[Begin(St, "idle", 0) EXCEPT !.now = @ + d]} : Commit(t)

NextNotify ==
    \/ \E m \in NotifyMessages, ty \in NotifyTypes : ShowNotification(m, ty)
    \/ \E tm \in displayTimers : VisibleTimerFire(tm)
    \/ \E tm \in displayTimers : ExitTimerFire(tm)
    \/ \E d \in {ExitDelay, VisibleDelay} : NotifyTick(d)

SpecNotify == InitSend /\ [][NextNotify]_vars

\* the product page with its quantity, extras, drinks and option controls, in
\* one tab; the user works on the selection before adding
InitProduct == Start(domContentLoaded(Blank, "product", "big-boss"))

ProductLoad(pid) ==
    \E t \in {domContentLoaded(Begin(St, "load", pid), "product", pid)} :
        Commit(t)

Selecting ==
    /\ page = "product"
    /\ productId # ""
    /\ Len(getCart(St).cart) + Len(Persisted) + Len(notificationEls)
           + Len(_notificationQueue) < MaxBusyCart

\* what the user types into a quantity field
TypedQuantities == {NaN, Num(-1), Num(0), Num(MaxQuantity + 1)}

QtyMinusClick ==
    /\ Selecting
    /\ currentQuantity <= MaxClickQty + 1
    /\ \E t \in {qtyMinusClick(Begin(St, "qty", 0))} : Commit(t)

QtyPlusClick ==
    /\ Selecting
    /\ currentQuantity <= MaxClickQty \/ currentQuantity = MaxQuantity
    /\ \E t \in {qtyPlusClick(Begin(St, "qty", 0))} : Commit(t)

QuantityInput(typed) ==
    /\ Selecting
    /\ \E t \in {quantityInput(Begin(St, "qty", 0), typed)} : Commit(t)

ExtraMinusClick(name) ==
    /\ Selecting
    /\ extraQty[name] <= MaxClickQty
    /\ \E t \in {extraMinusClick(Begin(St, "extra", 0), name)} : Commit(t)

ExtraPlusClick(name) ==
    /\ Selecting
    /\ extraQty[name] < MaxClickQty \/ extraQty[name] = MaxQuantity
    /\ \E t \in {extraPlusClick(Begin(St, "extra", 0), name)} : Commit(t)

ExtraQtyInput(name, typed) ==
    /\ Selecting
    /\ \E t \in {extraQtyInput(Begin(St, "extra", 0), name, typed)} : Commit(t)

DrinkMinusClick(name) ==
    /\ Selecting
    /\ drinkQty[name] <= MaxClickQty
    /\ \E t \in {drinkMinusClick(Begin(St, "drink", 0), name)} : Commit(t)

DrinkPlusClick(name) ==
    /\ Selecting
    /\ drinkQty[name] < MaxClickQty \/ drinkQty[name] = MaxQuantity
    /\ \E t \in {drinkPlusClick(Begin(St, "drink", 0), name)} : Commit(t)

DrinkQtyInput(name, typed) ==
    /\ Selecting
    /\ \E t \in {drinkQtyInput(Begin(St, "drink", 0), name, typed)} : Commit(t)

GreensChange(value) ==
    /\ Selecting
    /\ \E t \in {[Begin(St, "option", 0) EXCEPT !.greens = value]} : Commit(t)

SauceChange(value) ==
    /\ Selecting
    /\ \E t \in {sauceChange(Begin(St, "option", 0), value)} : Commit(t)

CustomSauceToggle ==
    /\ Selecting
    /\ sauce = "Custom"
    /\ \E t \in {[Begin(St, "option", 0) EXCEPT
                      !.customSauce = IF @ = <<>> THEN <<"Chilli">> ELSE <<>>]} :
           Commit(t)

NextProduct ==
    \/ ProductLoad("big-boss")
    \/ QtyMinusClick
    \/ QtyPlusClick
    \/ \E typed \in TypedQuantities : QuantityInput(typed)
    \/ \E n \in ExtraNames : ExtraMinusClick(n)
    \/ \E n \in ExtraNames : ExtraPlusClick(n)
    \/ \E n \in ExtraNames, typed \in TypedQuantities : ExtraQtyInput(n, typed)
    \/ \E n \in DrinkNames : DrinkMinusClick(n)
    \/ \E n \in DrinkNames : DrinkPlusClick(n)
    \/ \E n \in DrinkNames, typed \in TypedQuantities : DrinkQtyInput(n, typed)
    \/ \E v \in {"Yes", "No"} : GreensChange(v)
    \/ \E v \in {"No Sauce", "All", "Custom"} : SauceChange(v)
    \/ CustomSauceToggle
    \/ \E r \in Rand : AddToCartClick(r)
    \/ \E k \in 0..(MaxCart - 1) : RemoveClick(k)
    \/ StorageFault

SpecProduct == InitProduct /\ [][NextProduct]_vars

\* the cart store on its own, in one tab: the script has been evaluated over
\* a storage that holds no cart or a damaged text, and callers use getCart
\* and saveCart directly; a stored array is one that saveCart wrote
StoreEntry(pid) == newCartItem(loadProduct(freshPage(Blank, "product"), pid), 0)

StoreCarts ==
    {<<>>, <<StoreEntry("big-boss")>>, <<StoreEntry("nix-mapha")>>,
     <<StoreEntry("big-boss"), StoreEntry("nix-mapha")>>}

\* texts found under the key: absent, empty, not JSON, or JSON that is not
\* an array (its parsed value is kept in val)
StoredTexts ==
    {NoItem,
     [kind |-> "empty", val |-> <<>>],
     [kind |-> "invalid", val |-> <<"{">>],
     [kind |-> "nonarray", val |-> <<"{}">>]}

InitStore == \E txt \in StoredTexts : Start([Blank EXCEPT !.storage = txt])

GetCartCall ==
    \E g \in {getCart(Begin(St, "getCart", 0))} :
        Commit([g.s EXCEPT !.last.val = g.cart])

SaveCartCall(v) ==
    \E sv \in {saveCartValue(Begin(St, "saveCart", v), v)} : Commit(sv.s)

ReadFault ==
    \E t \in {[Begin(St, "idle", 0) EXCEPT !.getItemThrows = ~@]} : Commit(t)

NextStore ==
    \/ GetCartCall
    \/ \E c \in StoreCarts : SaveCartCall(ArrayValue(c))
    \/ SaveCartCall(NotAnArray)
    \/ Tick
    \/ StorageFault
    \/ ReadFault

SpecStore == InitStore /\ [][NextStore]_vars

\* one tab that is the only writer of the storage, every write succeeding:
\* the pages are loaded over no cart or a damaged text, reads may fail, and
\* the user adds, removes and sends
SoleName == <<"A", "l">>
SolePhone == <<"0", "8", "2", "1", "2", "3", "4", "5", "6", "7">>

\* the user types a name and a phone number into the order form
FillOrderForm ==
    /\ page = "main"
    /\ \E t \in {[Begin(St, "idle", 0) EXCEPT !.customerName = SoleName,
                                             !.customerPhone = SolePhone]} :
           Commit(t)

InitSole ==
    \E txt \in StoredTexts, tg \in LoadTargets \ {<<"product", "">>} :
        Start(domContentLoaded([Blank EXCEPT !.storage = txt], tg[1], tg[2]))

NextSole ==
    \/ \E tg \in LoadTargets \ {<<"product", "">>} : PageLoad(tg)
    \/ OpenCartClick
    \/ \E k \in 0..(MaxCart - 1) : RemoveClick(k)
    \/ AddToCartClick(0)
    \/ UpdateTimeoutFire
    \/ Tick
    \/ ReadFault
    \/ FillOrderForm
    \/ WhatsappClick("window")

SpecSole == InitSole /\ [][NextSole]_vars

\* the listing page over one stored entry whose options string, extras and
\* drinks hold any of the values below: the cart view shows the entry, and
\* the user sends the order
MaxSegments == 2

\* segments of an options string: the choices the add-to-cart handler
\* writes, other choices, an empty choice, and a segment with another key
OptionSegments ==
    {[key |-> "Greens:", value |-> v] :
        v \in {<<" ", "with greens">>, <<" ", "Yes">>, <<>>}}
    \cup {[key |-> "Sauces:", value |-> v] :
              v \in {<<" ", "all sauces">>, <<" ", "Chilli", "Mayo">>,
                     <<" ">>, <<" ", "*", "hot", "*">>}}
    \cup {[key |-> "Size:", value |-> <<" ", "large">>]}

OptionTexts == UNION {[1..n -> OptionSegments] : n \in 0..MaxSegments}

\* the extras and the drinks of the entry: none; one of each, both with
\* quantity 0; or three extras, the middle one
\* with quantity 0, and a drink
SubLists ==
    {[extras |-> <<>>, drinks |-> <<>>],
     [extras |-> <<[name |-> "Cheese", price |-> 5, quantity |-> 0]>>,
      drinks |-> <<[name |-> "Coke", price |-> 20, quantity |-> 0]>>],
     [extras |-> <<[name |-> "Cheese", price |-> 5, quantity |-> 2],
                   [name |-> "Egg", price |-> 5, quantity |-> 0],
                   [name |-> MarkedName, price |-> 5, quantity |-> 1]>>,
      drinks |-> <<[name |-> "Coke", price |-> 20, quantity |-> 1]>>]}

OptionsEntry(options, lists) ==
    [OrderEntry("big-boss", MinQuantity, FALSE, 0) EXCEPT
        !.options = options, !.extras = lists.extras, !.drinks = lists.drinks]

InitOptions ==
    \E options \in OptionTexts, lists \in SubLists :
        Start(domContentLoaded(
                  [Blank EXCEPT
                      !.storage = JSONstringify(
                          <<OptionsEntry(options, lists)>>)],
                  "main", ""))

NextOptions ==
    \/ OpenCartClick
    \/ FillOrderForm
    \/ \E o \in {"window", "null"} : WhatsappClick(o)

SpecOptions == InitOptions /\ [][NextOptions]_vars

\* the notification queue with timers that fire as soon as they are due: the
\* callers enqueue during a bounded burst, the clock stops at each due timer
LiveHorizon == MaxBurstNow + (MaxNotifyQueue + 1) * (VisibleDelay + ExitDelay)

BurstNotification(message, type) ==
    /\ now <= MaxBurstNow
    /\ ShowNotification(message, type)

TimerTick(d) ==
    /\ now + d <= LiveHorizon
    /\ \A tm \in displayTimers : now + d <= tm.due
    /\ \E t \in {[Begin(St, "idle", 0) EXCEPT !.now = @ + d]} : Commit(t)

TimerFire ==
    \/ \E tm \in displayTimers : VisibleTimerFire(tm)
    \/ \E tm \in displayTimers : ExitTimerFire(tm)

TimeStep == \E d \in {ExitDelay, VisibleDelay} : TimerTick(d)

NextNotifyLive ==
    \/ \E m \in NotifyMessages, ty \in NotifyTypes : BurstNotification(m, ty)
    \/ TimerFire
    \/ TimeStep

SpecNotifyLive ==
    /\ InitSend
    /\ [][NextNotifyLive]_vars
    /\ WF_vars(TimerFire)
    /\ WF_vars(TimeStep)

(***************************************************************************)
(* Properties.                                                             *)
(***************************************************************************)
\* the cart getCart would return in the current state
CartNow == getCart(St).cart

\* C1: one click on the remove button rendered for index k of the stored
\* cart leaves the stored cart without its k-th entry, the others unchanged
\* and in order (storage accepting writes, cache and view showing the stored
\* cart).
C1_RemoveClickRemovesOne ==
    [][(/\ last'.op = "remove"
        /\ ~setItemThrows
        /\ CartNow = Persisted
        /\ orderList = cartRows(Persisted))
       => Persisted' = splice1(Persisted, last'.arg)]_vars

\* C3: when the storage write fails during add-to-cart or a remove click,
\* getCart returns right afterwards the cart it returned before the click.
C3_FailedWriteIsNoOp ==
    [][(/\ last'.op \in {"add", "remove"}
        /\ last'.saves > 0
        /\ last'.okSaves = 0)
       => CartNow' = CartNow]_vars

\* C4: when the 50 ms timer of updateCartCount fires,
\* _updateCartCountImmediate runs exactly once and the count shown is the sum
\* of the quantities of the cart.
C4_DebounceRunsUpdate ==
    [][last'.op = "countTimer"
       => (last'.ran = 1 /\ cartCount' = totalItems(CartNow'))]_vars

\* C5: between handlers, #total-price shows the sum of basePrice x quantity
\* over the entries getCart returns.
C5_TotalShownIsCartTotal ==
    totalPrice = toFixed2(cartTotal(CartNow))

\* C6: an add-to-cart keeps every entry that was persisted when it started,
\* and a remove click keeps every persisted entry but the one shown in the
\* clicked row.
C6_PersistedEntriesKept ==
    [][/\ last'.op = "add"
          => \A i \in DOMAIN Persisted : Persisted[i] \in Range(Persisted')
       /\ last'.op = "remove"
          => \A i \in DOMAIN Persisted :
                Persisted[i].id # orderList[last'.arg + 1].id
                    => Persisted[i] \in Range(Persisted')]_vars

\* the three fields of the order form
Inputs == <<customerName, customerPhone, specialInstructions>>

\* the text of the notification enqueued last
LastEnqueued ==
    IF _notificationQueue # <<>>
    THEN _notificationQueue[Len(_notificationQueue)].message
    ELSE IF notificationEls # <<>>
    THEN notificationEls[Len(notificationEls)].message
    ELSE <<>>

\* C2: whenever sendWhatsAppOrder has returned true, the persisted cart is
\* empty, getCart returns the empty cart and the three inputs are empty.
C2_SendClearsCart ==
    (last.op = "send" /\ last.ret)
        => (Persisted = <<>> /\ CartNow = <<>> /\ Inputs = <<<<>>, <<>>, <<>>>>)

\* C7: sendWhatsAppOrder called while getCart returns the empty cart returns
\* false, does not call window.open, leaves the inputs and the stored text
\* unchanged and enqueues exactly one error notification.
C7_EmptyCartSend ==
    [][(last'.op = "send" /\ CartNow = <<>>)
       => (/\ ~last'.ret
           /\ last'.open = "none"
           /\ Inputs' = Inputs
           /\ storage' = storage
           /\ last'.notes = <<"error">>)]_vars

\* a send with an empty cart and a filled form has been refused
C7_Witness ==
    /\ last.op = "send"
    /\ LastEnqueued = <<"Your cart is empty!">>
    /\ customerName # <<>>
    /\ customerPhone # <<>>

\* C8 as stated: when window.open returns a falsy value or throws,
\* sendWhatsAppOrder returns false, enqueues exactly one error notification
\* and leaves the stored text, the cart cache and the inputs unchanged.
C8_Original ==
    [][(last'.op = "send" /\ last'.open \in {"null", "throws"})
       => (/\ ~last'.ret
           /\ last'.notes = <<"error">>
           /\ storage' = storage
           /\ _cartCache' = _cartCache
           /\ Inputs' = Inputs)]_vars

\* C8 as amended: when window.open returns a falsy value or throws,
\* sendWhatsAppOrder returns false, enqueues exactly one error notification,
\* leaves the stored text and the inputs unchanged, and the cart cache holds
\* the cart getCart returned to this call (the cart is not cleared).
C8_FailedOpenKeepsCart ==
    [][(last'.op = "send" /\ last'.open \in {"null", "throws"})
       => (/\ ~last'.ret
           /\ last'.notes = <<"error">>
           /\ storage' = storage
           /\ _cartCache' = [set |-> TRUE, val |-> CartNow]
           /\ CartNow # <<>>
           /\ CartNow' = CartNow
           /\ Inputs' = Inputs)]_vars

\* window.open was blocked or threw for a valid order
C8_Witness ==
    /\ last.op = "send"
    /\ last.open \in {"null", "throws"}
    /\ Persisted # <<>>
    /\ specialInstructions # <<>>

\* C9: with a non-empty cart and a name or phone that is empty after trim,
\* or a phone that fails the pattern, sendWhatsAppOrder returns false,
\* enqueues exactly one error notification, does not call window.open and
\* leaves the stored text and the inputs unchanged.
C9_InvalidContactSend ==
    [][(/\ last'.op = "send"
        /\ (CartNow # <<>> \/ Persisted # <<>>)
        /\ \/ trim(customerName) = <<>>
           \/ trim(customerPhone) = <<>>
           \/ ~phoneRegexTest(cleanPhone(trim(customerPhone))))
       => (/\ ~last'.ret
           /\ last'.notes = <<"error">>
           /\ last'.open = "none"
           /\ storage' = storage
           /\ Inputs' = Inputs)]_vars

\* a send with a non-empty cart was refused for its phone number
C9_Witness ==
    /\ last.op = "send"
    /\ LastEnqueued = <<"Please enter a valid South African phone number">>
    /\ Persisted # <<>>
    /\ trim(customerName) # <<>>

\* C10: at most one notification element is in the document and at most one
\* timer of the display loop is pending, so two queued notifications are
\* never visible at the same time.
C10_OneNotificationOneLoop ==
    /\ Len(notificationEls) <= 1
    /\ Cardinality(displayTimers) <= 1

\* the display loop has removed one notification and is showing the next one
C10_Witness ==
    /\ last.op = "exitTimer"
    /\ Len(notificationEls) = 1
    /\ Cardinality(displayTimers) = 1
    /\ _notificationShowing

\* the notifications displayed or waiting, oldest first
Pending ==
    [i \in 1..Len(notificationEls) |->
        [message |-> notificationEls[i].message,
         type |-> notificationEls[i].type]] \o _notificationQueue

\* C11: the notifications displayed or waiting form a FIFO queue whose head
\* is the one on display: showNotification appends its message at the end,
\* the 3000 ms callback leaves the sequence alone, the 300 ms callback drops
\* the head and puts the next one on display; so each message is displayed
\* once, in the order of the calls.
C11_NotificationsFifo ==
    [][/\ last'.op = "notify"
          => Pending' = Append(Pending, [message |-> last'.arg,
                                         type |-> last'.notes[1]])
       /\ last'.op = "visibleTimer" => Pending' = Pending
       /\ last'.op = "exitTimer" => Pending' = Tail(Pending)
       /\ last'.op \in {"notify", "visibleTimer", "exitTimer"}
          => (/\ Len(notificationEls') <= 1
              /\ _notificationQueue' # <<>> => notificationEls' # <<>>)]_vars

\* with two different notifications waiting, the display loop has just put
\* the older one on display
C11_Witness ==
    /\ last.op = "exitTimer"
    /\ Len(notificationEls) = 1
    /\ Len(_notificationQueue) = 1
    /\ notificationEls[1].message # _notificationQueue[1].message

\* the notification queue is idle
NotifyIdle ==
    /\ _notificationQueue = <<>>
    /\ ~_notificationShowing
    /\ notificationEls = <<>>
    /\ displayTimers = {}

\* C12 (liveness): with fair timers, whenever the queue is busy it becomes
\* idle again: queue empty, _notificationShowing false, no element left.
C12_EventuallyIdle == (~NotifyIdle) ~> NotifyIdle

\* C12 (same call): showNotification called while the queue is idle puts its
\* own message on display before it returns.
C12_IdleCallDisplays ==
    [][(last'.op = "notify" /\ NotifyIdle)
       => (/\ Len(notificationEls') = 1
           /\ notificationEls'[1].message = last'.arg
           /\ _notificationShowing'
           /\ _notificationQueue' = <<>>)]_vars

\* C12: both parts
C12_QueueDrains == C12_EventuallyIdle /\ C12_IdleCallDisplays

\* the queue is idle again after a burst that filled it
C12_Witness ==
    /\ NotifyIdle
    /\ last.op = "exitTimer"
    /\ now >= 3 * (VisibleDelay + ExitDelay)

\* C13 as stated: after a successful saveCart(entries) in one tab, a getCart
\* returns the content of entries (which is what the storage holds until the
\* next write), whatever the age of the cache.
C13_Original ==
    [][/\ (last'.op = "saveCart" /\ last'.ret)
          => (Persisted' = last'.arg.val /\ CartNow' = last'.arg.val)
       /\ (last'.op = "getCart" /\ storage.kind = "array")
          => last'.val = Persisted]_vars

\* C13 as amended: after a successful saveCart(entries) in one tab, a getCart
\* returns the content of entries whatever the age of the cache, except that
\* it returns the empty list when the cache has expired and the storage read
\* throws.
C13_SavedCartIsRead ==
    [][/\ (last'.op = "saveCart" /\ last'.ret)
          => (Persisted' = last'.arg.val /\ CartNow' = last'.arg.val)
       /\ (last'.op = "getCart" /\ storage.kind = "array")
          => last'.val = IF ~cacheFresh(St) /\ getItemThrows THEN <<>>
                         ELSE Persisted]_vars

\* getCart has just re-read the saved cart from the storage, the cache set
\* by the save having expired
C13_Witness ==
    /\ last.op = "getCart"
    /\ last.val = Persisted
    /\ Len(Persisted) = 2
    /\ _cartCacheTime = MaxNow

\* C14: saveCart given a non-array returns false and leaves the stored text
\* and the cache unchanged; given an array with working storage it stores
\* the serialized array, makes it the cache and returns true; when the write
\* throws it returns false and leaves the stored text unchanged.
C14_SaveCartOutcomes ==
    [][last'.op = "saveCart"
       => IF ~last'.arg.isArray
          THEN /\ ~last'.ret
               /\ storage' = storage
               /\ _cartCache' = _cartCache
               /\ _cartCacheTime' = _cartCacheTime
          ELSE IF setItemThrows
          THEN ~last'.ret /\ storage' = storage
          ELSE /\ last'.ret
               /\ storage' = JSONstringify(last'.arg.val)
               /\ _cartCache' = [set |-> TRUE, val |-> last'.arg.val]
               /\ _cartCacheTime' = now]_vars

\* saveCart has refused a non-array while a cart was stored and cached
C14_Witness ==
    /\ last.op = "saveCart"
    /\ ~last.arg.isArray
    /\ Persisted # <<>>
    /\ _cartCache.set

\* C15: getCart returns the empty list when the key is absent, when the
\* stored text is not valid JSON, when it is JSON but not an array, and when
\* the read it attempts throws.
C15_GetCartDegradesToEmpty ==
    [][last'.op = "getCart"
       => (/\ storage.kind \in {"null", "empty", "invalid", "nonarray"}
              => last'.val = <<>>
           /\ (getItemThrows /\ ~cacheFresh(St)) => last'.val = <<>>)]_vars

\* getCart has returned the empty list for a stored JSON text that is not an
\* array
C15_Witness ==
    /\ last.op = "getCart"
    /\ storage.kind = "nonarray"
    /\ last.val = <<>>
    /\ ~getItemThrows

\* C16: a successful add-to-cart click changes the stored cart from c to c
\* followed by exactly one new entry, which carries the current quantity,
\* options, extras and drinks of the product page.
C16_AddAppendsOneEntry ==
    [][(last'.op = "add" /\ last'.okSaves = 1)
       => (/\ Len(Persisted') = Len(Persisted) + 1
           /\ SubSeq(Persisted', 1, Len(Persisted)) = Persisted
           /\ LET e == Persisted'[Len(Persisted')]
              IN /\ e.quantity = currentQuantity
                 /\ e.options = collectOptions(St)
                 /\ e.extras = extras
                 /\ e.drinks = drinks)]_vars

\* C17: the entries of the stored cart are never edited in place, and the
\* stored cart is changed only by add-to-cart (one entry appended), by a
\* remove click (one entry deleted) and by a successful send (emptied);
\* every other step leaves it unchanged.
C17_StoredCartWrittenOnlyBy ==
    [][/\ last'.op = "add"
          => \/ Persisted' = Persisted
             \/ /\ Len(Persisted') = Len(Persisted) + 1
                /\ SubSeq(Persisted', 1, Len(Persisted)) = Persisted
       /\ last'.op = "remove"
          => \/ Persisted' = Persisted
             \/ \E k \in 0..(Len(Persisted) - 1) :
                    Persisted' = splice1(Persisted, k)
       /\ last'.op = "send"
          => \/ Persisted' = Persisted
             \/ last'.ret /\ Persisted' = <<>>
       /\ last'.op \notin {"add", "remove", "send"}
          => Persisted' = Persisted]_vars

\* every quantity of the list is a whole number from 1 to 10
QuantitiesInRange(list) ==
    \A i \in DOMAIN list : list[i].quantity \in MinQuantity..MaxQuantity

\* C18: no element of the transient extras and drinks lists, and none of the
\* extras and drinks lists of an entry of the cart (stored or cached), has
\* quantity 0; every such quantity is a whole number from 1 to 10.
C18_ExtraQuantitiesInRange ==
    /\ QuantitiesInRange(extras)
    /\ QuantitiesInRange(drinks)
    /\ \A c \in {Persisted, CartNow} : \A i \in DOMAIN c :
          QuantitiesInRange(c[i].extras) /\ QuantitiesInRange(c[i].drinks)

\* an entry with two extras, one of them at the upper limit, and a drink is
\* stored
C18_Witness ==
    /\ Persisted # <<>>
    /\ Len(Persisted[1].extras) = 2
    /\ Persisted[1].extras[1].quantity = MaxQuantity
    /\ Persisted[1].drinks # <<>>

\* C19: currentQuantity is a whole number from 1 to 10, and so is the
\* quantity of every entry of the cart (stored or cached).
C19_QuantityInRange ==
    /\ currentQuantity \in MinQuantity..MaxQuantity
    /\ \A c \in {Persisted, CartNow} : \A i \in DOMAIN c :
          c[i].quantity \in MinQuantity..MaxQuantity

\* an entry added after 11 was typed into the quantity field is stored
C19_Witness ==
    /\ Persisted # <<>>
    /\ Persisted[1].quantity = MaxQuantity

\* the transient state of the product page
Transient ==
    <<currentQuantity, extras, drinks, currentExtrasTotal, currentDrinksTotal>>

\* C20: after loadProduct has loaded a catalog product and after every
\* successful add-to-cart the transient state is reset (quantity 1, no
\* extras, no drinks, both totals 0); when the add fails the transient state
\* is kept.
C20_TransientReset ==
    [][/\ (last'.op = "load" /\ last'.arg \in ProductIds)
          => Transient' = <<1, <<>>, <<>>, 0, 0>>
       /\ (last'.op = "add" /\ last'.okSaves = 1)
          => Transient' = <<1, <<>>, <<>>, 0, 0>>
       /\ (last'.op = "add" /\ last'.saves = 1 /\ last'.okSaves = 0)
          => Transient' = Transient]_vars

\* an add of several items with an extra and a drink has succeeded and the
\* selection is back to its defaults
C20_Witness ==
    /\ last.op = "add"
    /\ last.okSaves = 1
    /\ Persisted[Len(Persisted)].quantity > 1
    /\ Persisted[Len(Persisted)].extras # <<>>
    /\ Persisted[Len(Persisted)].drinks # <<>>
    /\ Transient = <<1, <<>>, <<>>, 0, 0>>

\* the cart sendWhatsAppOrder reads, and whether it got as far as composing
\* the message and calling window.open
Composed == last.op = "send" /\ last.open # "none"

\* C21: for a cart of n entries the order message has exactly n item blocks,
\* numbered 1..n in cart order, each with the name and quantity of its entry
\* and the price basePrice x quantity; the TOTAL AMOUNT is the sum of these
\* n line totals, and it is the total the cart view shows for that cart.
C21_OrderMessageTotals ==
    [][Composed'
       => LET cart == CartNow
              msg == last'.msg
          IN /\ Len(msg.blocks) = Len(cart)
             /\ \A i \in 1..Len(cart) :
                   /\ msg.blocks[i].number = i
                   /\ msg.blocks[i].name = cart[i].name
                   /\ msg.blocks[i].quantity = cart[i].quantity
                   /\ msg.blocks[i].price
                          = toFixed2(cart[i].basePrice * cart[i].quantity)
             /\ msg.total = toFixed2(SumSeq([i \in 1..Len(cart) |->
                                  cart[i].basePrice * cart[i].quantity]))
             /\ msg.total = updateCartDisplay(St).totalPrice
             /\ msg.total = totalPrice]_vars

\* an order of two different entries, the second one of quantity 3 with
\* extras, has been composed and sent
C21_Witness ==
    /\ Composed
    /\ last.ret
    /\ Len(last.msg.blocks) = 2
    /\ last.msg.blocks[1].name # last.msg.blocks[2].name
    /\ last.msg.blocks[1].quantity = 1
    /\ last.msg.blocks[2].quantity = 3
    /\ last.msg.blocks[2].extras # <<>>

\* '+27' or '0', then one digit 1-9, then exactly 8 digits
WellFormedPhone(p) ==
    \E prefix \in {<<"+", "2", "7">>, <<"0">>} :
        /\ Len(p) = Len(prefix) + 1 + 8
        /\ SubSeq(p, 1, Len(prefix)) = prefix
        /\ p[Len(prefix) + 1] \in {"1", "2", "3", "4", "5", "6", "7", "8", "9"}
        /\ \A i \in 1..8 : p[Len(prefix) + 1 + i] \in Digits

\* the phone examples of the specification
Phone0821234567 == <<"0", "8", "2", "1", "2", "3", "4", "5", "6", "7">>
PhonePlus27821234567 ==
    <<"+", "2", "7", "8", "2", "1", "2", "3", "4", "5", "6", "7">>

\* C22: with a non-empty cart and a name, sendWhatsAppOrder accepts the
\* trimmed phone input (goes on to window.open) exactly when, whitespace
\* removed, it is '+27' or '0', one digit 1-9 and exactly 8 digits;
\* 0821234567 and +27821234567 are accepted, 123 and 08212345 are rejected.
C22_PhoneAcceptedIffWellFormed ==
    [][(/\ last'.op = "send"
        /\ CartNow # <<>>
        /\ trim(customerName) # <<>>
        /\ trim(customerPhone) # <<>>)
       => (/\ Composed' <=> WellFormedPhone(cleanPhone(trim(customerPhone)))
           /\ customerPhone \in {Phone0821234567, PhonePlus27821234567}
                  => Composed'
           /\ customerPhone \in {<<"1", "2", "3">>,
                                  <<"0", "8", "2", "1", "2", "3", "4", "5">>}
                  => ~Composed')]_vars

\* a phone typed with blanks around and inside the international form has
\* been accepted
C22_Witness ==
    /\ Composed
    /\ last.open = "null"
    /\ Len(customerPhone) > Len(PhonePlus27821234567)
    /\ cleanPhone(customerPhone) = PhonePlus27821234567

\* C23: the phone written into the order message is the local form: 10
\* digits starting with 0; a leading +27 of the accepted input has been
\* rewritten to 0 and an input starting with 0 is written as it is.
C23_MessagePhoneIsLocal ==
    [][Composed'
       => LET cleaned == cleanPhone(trim(customerPhone))
              phone == last'.msg.phone
          IN /\ Len(phone) = 10
             /\ phone[1] = "0"
             /\ \A i \in 1..10 : phone[i] \in Digits
             /\ cleaned[1] = "+"
                    => phone = <<"0">> \o SubSeq(cleaned, 4, Len(cleaned))
             /\ cleaned[1] = "0" => phone = cleaned]_vars

\* an order typed with the international prefix carries the local number
C23_Witness ==
    /\ Composed
    /\ last.open = "throws"
    /\ customerPhone = PhonePlus27821234567
    /\ last.msg.phone = Phone0821234567

\* C24: generateOrderNumber returns a whole number from 1000 to 9999 for
\* every value of the random source, on the crypto path (any Uint32) and on
\* the Math.random path (any value in [0, 1)).
C24_OrderNumberInRange ==
    last.op = "orderNumber" => last.val \in 1000..9999

\* the largest Math.random() value, 1 - 2^-53, has given 9999
C24_Witness ==
    /\ last.op = "orderNumber"
    /\ ~last.arg.crypto
    /\ last.arg.value = <<2^5 - 1, 2^16 - 1, 2^16 - 1, 2^16 - 1>>
    /\ last.val = 9999

\* C25: a notification is put on display at least 3300 ms (3000 ms visible
\* plus 300 ms exit) after the one before it was; and when an element is on
\* display the next one starts only in the 300 ms callback that has removed
\* that element, never in the showNotification call that enqueues it.
C25_DisplaySpacing ==
    [][/\ (shown'.count # shown.count /\ shown.count > 0)
          => shown'.at >= shown.at + VisibleDelay + ExitDelay
       /\ (shown'.count # shown.count /\ notificationEls # <<>>)
          => (/\ last'.op = "exitTimer"
              /\ \E tm \in displayTimers :
                     /\ tm.stage = "exit"
                     /\ tm.el = notificationEls[1].id
                     /\ tm \notin displayTimers')
       /\ (last'.op = "notify" /\ notificationEls # <<>>)
          => (shown' = shown /\ notificationEls' = notificationEls)]_vars

\* the second notification, enqueued while the first was on display, has
\* started exactly 3300 ms after the first
C25_Witness ==
    /\ last.op = "exitTimer"
    /\ shown = [count |-> 2, at |-> VisibleDelay + ExitDelay]
    /\ Len(notificationEls) = 1
    /\ now = shown.at

\* the ids of the entries of a cart, in cart order
Ids(cart) == [i \in DOMAIN cart |-> cart[i].id]

\* C26: no two entries of the stored cart have the same id, and the entry an
\* add-to-cart stores gets an id that no entry stored before the click has.
C26_IdsUnique ==
    /\ \A i, j \in DOMAIN Persisted : i # j => Persisted[i].id # Persisted[j].id
    /\ last.op = "add" /\ last.okSaves = 1
          => Persisted[Len(Persisted)].id
                 \notin Range(Ids(SubSeq(Persisted, 1, Len(Persisted) - 1)))

\* C27: a remove click deletes no entry other than the one displayed in the
\* clicked row: every entry of the cart, cached or stored, whose id is not
\* the id shown in that row is still in the cart after the click.
C27_RemoveDeletesOnlyClickedRow ==
    [][last'.op = "remove"
       => LET clicked == orderList[last'.arg + 1].id
          IN /\ \A e \in Range(CartNow) : e.id # clicked => e \in Range(CartNow')
             /\ \A e \in Range(Persisted) :
                    e.id # clicked => e \in Range(Persisted')]_vars

\* C28: at most one click listener is registered on #order-list, so one
\* click on a remove button runs at most one removal (one saveCart).
C28_OneRemoveListener ==
    /\ listeners <= 1
    /\ last.op = "remove" => last.saves <= 1

\* C29: in one tab that is the only writer, every write succeeding, between
\* handlers a cache that is set and younger than 1000 ms holds the content
\* of the persisted cart (a malformed persisted text counting as empty).
C29_FreshCacheIsPersisted ==
    cacheFresh(St) => _cartCache.val = Persisted

\* a remove click has rewritten a cart of two entries, and the fresh cache
\* holds the one entry stored
C29_Witness ==
    /\ last.op = "remove"
    /\ last.okSaves = 1
    /\ cacheFresh(St)
    /\ Len(Persisted) = 1
    /\ _cartCache.val = Persisted

\* (p + sum of extras price x quantity + sum of drinks price x quantity) x q
\* for the product and the selection of the product page
SelectionTotal ==
    (products[productId].price + listTotal(extras) + listTotal(drinks))
        * currentQuantity

\* C30: currentExtrasTotal and currentDrinksTotal are the sums over the
\* extras and drinks lists; and the line total the cart view shows for the
\* entry a successful add-to-cart has stored is the total #modalTotalDisplay
\* showed at the click, (p + extras + drinks) x q.
C30_LineTotalIsModalTotal ==
    /\ [](/\ currentExtrasTotal = listTotal(extras)
          /\ currentDrinksTotal = listTotal(drinks))
    /\ [][(last'.op = "add" /\ last'.okSaves = 1)
          => LET row == orderList'[Len(orderList')]
                 entry == Persisted'[Len(Persisted')]
             IN /\ row.id = entry.id
                /\ entry.quantity = currentQuantity
                /\ row.price = modalTotalDisplay
                /\ row.price = toFixed2(SelectionTotal)]_vars

\* the cart view shows the line of an entry added with a quantity above 1,
\* two extras and a drink
C30_Witness ==
    /\ last.op = "add"
    /\ last.okSaves = 1
    /\ LET row == orderList[Len(orderList)]
           entry == Persisted[Len(Persisted)]
       IN /\ entry.quantity > 1
          /\ Len(entry.extras) = 2
          /\ entry.drinks # <<>>
          /\ row.price = toFixed2((entry.baseProductPrice
                                       + listTotal(entry.extras)
                                       + listTotal(entry.drinks))
                                  * entry.quantity)

\* C31 (as stated): a getCart call at time t returns the cached list without
\* reading the storage exactly when a cache is set and t minus the time of
\* the last storage read (any getItem call) or successful write is below
\* _CACHE_DURATION.
C31_Original ==
    [][last'.op = "getCart"
       => ((last'.reads = 0 /\ last'.val = _cartCache.val)
           <=> (_cartCache.set /\ now - lastAccess.at < _CACHE_DURATION))]_vars

\* C31 (amended): a getCart call at time t returns the cached list without
\* reading the storage exactly when a cache is set and t minus the time of
\* the last read that yielded a cart or successful write is below
\* _CACHE_DURATION; otherwise it calls getItem once.  A read that throws or
\* finds unparsable text returns [] and restarts nothing.  A cache hit
\* changes neither the cache nor its time, so the first getCart at least
\* _CACHE_DURATION after that read or write reads the storage again.
C31_CacheServedWhileFresh ==
    [][last'.op = "getCart"
       => /\ (last'.reads = 0 /\ last'.val = _cartCache.val)
             <=> (_cartCache.set /\ now - lastAccess.okAt < _CACHE_DURATION)
          /\ last'.reads \in {0, 1}
          /\ last'.reads = 0
             => /\ _cartCache' = _cartCache
                /\ _cartCacheTime' = _cartCacheTime
                /\ lastAccess' = lastAccess
          /\ (last'.reads = 1 /\ lastAccess'.okAt # now)
             => /\ last'.val = <<>>
                /\ _cartCache' = _cartCache
                /\ _cartCacheTime' = _cartCacheTime
                /\ lastAccess'.okAt = lastAccess.okAt]_vars

\* a getCart call has just read the storage although a cache is set: the
\* cache had expired, the read failed, and [] was returned in place of the
\* cached cart
C31_Witness ==
    /\ last.op = "getCart"
    /\ last.reads = 1
    /\ _cartCache.set
    /\ _cartCache.val # <<>>
    /\ last.val = <<>>
    /\ lastAccess.at = now
    /\ now - lastAccess.okAt >= _CACHE_DURATION

\* C34: after any sequence of showNotification calls and timer firings,
\* _notificationShowing is true exactly when a timer of the display loop is
\* pending (exactly one is), and whenever it is false the notification queue
\* is empty: nothing waits in the queue without a timer that will show it.
C34_ShowingIffTimerPending ==
    /\ _notificationShowing <=> displayTimers # {}
    /\ Cardinality(displayTimers) <= 1
    /\ ~_notificationShowing => _notificationQueue = <<>>

\* the display loop has just ended after showing a notification that was
\* enqueued while another one was on display: the flag is down, no timer is
\* pending and nothing is left in the queue
C34_Witness ==
    /\ last.op = "exitTimer"
    /\ shown.count = 2
    /\ ~_notificationShowing
    /\ displayTimers = {}
    /\ _notificationQueue = <<>>

\* the segments of an options string that start with 'Greens:' or 'Sauces:'
Recognized(options) ==
    SelectSeq(options, LAMBDA o : o.key \in {"Greens:", "Sauces:"})

\* the extras (or drinks) of a list with a quantity above 0
Listed(list) == SelectSeq(list, LAMBDA e : e.quantity > 0)

\* C33: the options the cart view shows for an entry (the result of
\* formatOptionsForDisplay) are empty for an entry with no options, no
\* extras and no drinks; they hold one line for every segment that starts
\* with 'Greens:' or 'Sauces:', in the order of the segments, then the extras
\* with a quantity above 0 if there are any, then such drinks; the other
\* segments and the extras and drinks with quantity 0 contribute nothing:
\* the entry without them is shown the same.
C33_OptionsDisplay ==
    /\ Len(orderList) = Len(Persisted)
    /\ \A i \in DOMAIN orderList :
           LET item == Persisted[i]
               out == orderList[i].options
               segs == Recognized(item.options)
               ex == Listed(item.extras)
               dr == Listed(item.drinks)
               n == Len(segs)
               m == n + (IF ex # <<>> THEN 1 ELSE 0)
           IN /\ (item.options = <<>> /\ item.extras = <<>>
                     /\ item.drinks = <<>>) => out = <<>>
              /\ Len(out) = m + (IF dr # <<>> THEN 1 ELSE 0)
              /\ \A k \in 1..n :
                     /\ out[k].tag = (IF segs[k].key = "Greens:"
                                      THEN "greens" ELSE "sauces")
                     /\ out[k].text \in {trim(segs[k].value),
                                         <<"Not specified">>}
                     /\ out[k].text # <<>>
              /\ ex # <<>>
                 => /\ out[n + 1].tag = "extras"
                    /\ Len(out[n + 1].list) = Len(ex)
                    /\ \A j \in DOMAIN ex :
                           /\ out[n + 1].list[j].quantity = ex[j].quantity
                           /\ out[n + 1].list[j].name = nameNoAngle(ex[j].name)
              /\ dr # <<>>
                 => /\ out[m + 1].tag = "drinks"
                    /\ Len(out[m + 1].list) = Len(dr)
                    /\ \A j \in DOMAIN dr :
                           /\ out[m + 1].list[j].quantity = dr[j].quantity
                           /\ out[m + 1].list[j].name = nameNoAngle(dr[j].name)
              /\ out = formatOptionsForDisplay(
                           [item EXCEPT !.options = segs, !.extras = ex,
                                        !.drinks = dr])

\* the cart has been opened and its view shows an entry whose options string
\* holds a segment with another key before a recognized one, whose extras
\* hold one with quantity 0 between two that are listed, and which has a
\* drink: three fragments
C33_Witness ==
    /\ listeners > 1
    /\ Len(Persisted) = 1
    /\ Len(orderList) = 1
    /\ Len(Persisted[1].options) = 2
    /\ Persisted[1].options[1].key = "Size:"
    /\ Persisted[1].options[2].key = "Sauces:"
    /\ Len(Persisted[1].extras) = 3
    /\ Len(Listed(Persisted[1].extras)) = 2
    /\ Listed(Persisted[1].drinks) # <<>>
    /\ Len(orderList[1].options) = 3
    /\ orderList[1].options[3].tag = "drinks"

\* the text of the lines with this tag among the options a row shows
ViewChoice(view, tag) ==
    LET lines == SelectSeq(view, LAMBDA f : f.tag = tag)
    IN [k \in DOMAIN lines |-> lines[k].text]

\* the names and quantities under the heading with this tag
ViewList(view, tag) ==
    LET found == SelectSeq(view, LAMBDA f : f.tag = tag)
    IN IF found = <<>> THEN <<>> ELSE found[1].list

\* the text of the lines with this key in a block of the order message
MessageChoice(block, key) ==
    LET lines == SelectSeq(block.options, LAMBDA o : o.key = key)
    IN [k \in DOMAIN lines |-> lines[k].value]

\* C32: for every entry of the cart, whatever its 'Greens:' and 'Sauces:'
\* segments hold, the order message composed by a send and the cart view
\* report the same greens choice and the same sauces choice, and list the
\* same extras and drinks (same names and quantities, in list order).
C32_ViewAndMessageAgree ==
    [][(last'.op = "send" /\ last'.open # "none")
       => /\ Len(last'.msg.blocks) = Len(orderList)
          /\ \A i \in DOMAIN orderList :
                 LET view == orderList[i].options
                     block == last'.msg.blocks[i]
                 IN /\ ViewChoice(view, "greens")
                           = MessageChoice(block, "Greens:")
                    /\ ViewChoice(view, "sauces")
                           = MessageChoice(block, "Sauces:")
                    /\ ViewList(view, "extras") = block.extras
                    /\ ViewList(view, "drinks") = block.drinks]_vars

====
